---- MODULE Spec2Model ----
(***************************************************************************)
(* A model of sepia/SepiaSensitivity.py: the call sensitivity(model, ...), *)
(* its per-component engine component_sens and the integral helper varf.   *)
(*                                                                         *)
(* Arrays are modelled by their shapes where a property is about shapes,   *)
(* keys and outcomes (specification Spec), and by exact rational values    *)
(* where a property is about values (specifications SpecVarf and SpecNum). *)
(* Indices are 0-based as in the source.                                   *)
(***************************************************************************)
EXTENDS Integers, Sequences, FiniteSets, TLC

VARIABLES model, call, result, varfIn, varfOut, numIn, numOut, data, heap

vars == <<model, call, result, varfIn, varfOut, numIn, numOut, data, heap>>

(***************************************************************************)
(* Bounds of the model.                                                    *)
(***************************************************************************)
\* largest number p of simulator inputs of a model
MaxP == 2
\* largest number q of calibration parameters of a model
MaxQ == 1
\* largest number pu of basis components of a model
MaxPu == 2
\* largest number of posterior draws held by a sample set
MaxDraws == 2
\* largest number m of simulation runs in a value-level computation
MaxM == 2
\* largest number of input dimensions in a value-level computation
MaxDim == 2
\* the value-level inputs are generated from seeds 0 .. MaxSeed
MaxSeed == 3
\* largest number of outputs (rows of the basis K.T) in a value-level computation
MaxNy == 2

\* the largest size pu * p * m * npvec of a call computed by values
MaxCells == 16
\* largest number m of samples of a lookup table handed to varf
MaxSamples == 3
\* largest number ngrid of grid points of an effect function
MaxGrid == 2

(***************************************************************************)
(* Python values.  None and the absent cases are tagged records, so that   *)
(* every value of a kind has one shape.                                    *)
(***************************************************************************)
Range(n) == 0 .. (n - 1)

\* the row counts of the three arrays of a sample dict
Rows(b, u, w) == [betaU |-> b, lamUz |-> u, lamWs |-> w]

\* itertools.combinations(range(n), 2): the pairs i<j in lexicographic order
RECURSIVE CombosFrom(_, _, _)
CombosFrom(n, i, j) ==
    IF i >= n - 1 THEN <<>>
    ELSE IF j >= n THEN CombosFrom(n, i + 1, i + 2)
    ELSE <<(<<i, j>>)>> \o CombosFrom(n, i, j + 1)

Combinations2(n) == CombosFrom(n, 0, 1)

\* the index array of a set of indices: ascending, as numpy returns it
RECURSIVE SortedSeq(_)
SortedSeq(S) ==
    IF S = {} THEN <<>>
    ELSE LET lo == CHOOSE x \in S : \A y \in S : x <= y
         IN  <<lo>> \o SortedSeq(S \ {lo})

\* the set of the elements of a sequence
Elems(s) == {s[i] : i \in DOMAIN s}

\* np.setxor1d(a, b): the sorted values in exactly one of the two arrays
setxor1d(a, b) == SortedSeq((Elems(a) \ Elems(b)) \cup (Elems(b) \ Elems(a)))

\* range(n) as an index array
RangeSeq(n) == [i \in 1 .. n |-> i - 1]

(***************************************************************************)
(* The outcome of a call: a returned bundle, a plain "return" (None) after *)
(* a printed message, or an exception raised to the caller.                *)
(***************************************************************************)
NoShape == [keys |-> {}, nv |-> 0, dims |-> <<>>, npvec |-> 0, smePm |-> 0, stePm |-> 0, siePm |-> 0, sjePm |-> 0, totalVar |-> 0, saDraws |-> <<>>, draws |-> Rows(0, 0, 0), read |-> Rows(0, 0, 0), pairs |-> <<>>, bind |-> <<>>, catLen |-> 0, catIndex |-> <<>>]

Raise(e) == [kind |-> "raise", err |-> e, printed |-> "", sens |-> NoShape]

ReturnNone(msg) == [kind |-> "none", err |-> "", printed |-> msg, sens |-> NoShape]

Return(b) == [kind |-> "bundle", err |-> "", printed |-> "", sens |-> b]

\* the state of the caller before a call and after it has taken the result
Idle == [kind |-> "idle", err |-> "", printed |-> "", sens |-> NoShape]

MsgNoFree == "error:  no free variables"

MsgInvalidOption == "invalid option (choose mean, median, or samples, or pass dict of values for betaU, lamUz, lamWs)"

(***************************************************************************)
(* sensitivity, lines 44-47: the sample set the call works on.             *)
(***************************************************************************)
get_samples(mdl) == Rows(mdl.N, mdl.N, mdl.N)

ResolveSamples(mdl, samples_dict) ==
    IF samples_dict.given THEN samples_dict.rows ELSE get_samples(mdl)

(***************************************************************************)
(* sensitivity, lines 49-64: the retained dimensions ii0 and their number. *)
(* np.where with one argument returns a tuple of index arrays (line 55),   *)
(* and line 56 asks that tuple for .shape, which a tuple does not have.    *)
(***************************************************************************)
WhereEq(rg) == [tuple |-> TRUE, idx |-> SortedSeq({i \in DOMAIN rg.mat : rg.mat[i][1] = rg.mat[i][2]})]

HasShape(v) == ~v.tuple

ActiveDims(nv, rg) ==
    IF ~rg.given THEN [ok |-> TRUE, err |-> "", nv |-> nv, ii0 |-> RangeSeq(nv)]
    ELSE LET ii0 == WhereEq(rg)
         IN  IF ~HasShape(ii0)
             THEN [ok |-> FALSE, err |-> "AttributeError", nv |-> nv, ii0 |-> <<>>]
             ELSE IF Len(ii0.idx) > 0
                  THEN LET kept == setxor1d(RangeSeq(nv), ii0.idx)
                       IN  [ok |-> TRUE, err |-> "", nv |-> Len(kept), ii0 |-> kept]
                  ELSE [ok |-> TRUE, err |-> "", nv |-> nv, ii0 |-> ii0.idx]

(***************************************************************************)
(* sensitivity, lines 71-89: the draws per array that option selects.      *)
(***************************************************************************)
\* variant: an unrecognised option falls through to the 'mean' reduction
ResolveOption_DefaultMean(option, rows) ==
    IF option.kind = "str" /\ option.name = "samples" THEN [ok |-> TRUE, rows |-> rows]
    ELSE IF option.kind = "dict" THEN [ok |-> TRUE, rows |-> option.rows]
    ELSE [ok |-> TRUE, rows |-> Rows(1, 1, 1)]

\* variant: 'mean' and 'median' reduce betaU and lamUz but leave lamWs whole
ResolveOption_LamWsNotReduced(option, rows) ==
    IF option.kind = "str" /\ option.name = "samples" THEN [ok |-> TRUE, rows |-> rows]
    ELSE IF option.kind = "str" /\ option.name \in {"mean", "median"} THEN [ok |-> TRUE, rows |-> Rows(1, 1, rows.lamWs)]
    ELSE IF option.kind = "dict" THEN [ok |-> TRUE, rows |-> option.rows]
    ELSE [ok |-> FALSE, rows |-> rows]

ResolveOption(option, rows) ==
    IF option.kind = "str" /\ option.name = "samples" THEN [ok |-> TRUE, rows |-> rows]
    ELSE IF option.kind = "str" /\ option.name = "mean" THEN [ok |-> TRUE, rows |-> Rows(1, 1, 1)]
    ELSE IF option.kind = "str" /\ option.name = "median" THEN [ok |-> TRUE, rows |-> Rows(1, 1, 1)]
    ELSE IF option.kind = "dict" THEN [ok |-> TRUE, rows |-> option.rows]
    ELSE [ok |-> FALSE, rows |-> rows]

(***************************************************************************)
(* sensitivity, lines 91-93: varlist "all" becomes the list of all pairs.  *)
(***************************************************************************)
ResolveVarlist(varlist, nv) ==
    IF varlist.kind = "all" THEN [kind |-> "list", pairs |-> Combinations2(nv)]
    ELSE varlist

\* Python truthiness of a list-or-None argument
Truthy(l) == l.kind = "list" /\ Len(l.pairs) > 0

IsNotNone(l) == l.kind # "None"

(***************************************************************************)
(* component_sens, lines 240-363, by shapes: the draws it runs over, the   *)
(* rows it reads and the keys of the dict it returns.                      *)
(***************************************************************************)
ComponentKeys(varlist, jelist) ==
    {"e0", "vt", "sme", "ste", "mef_m", "mef_v"}
      \cup (IF Truthy(varlist) THEN {"sie", "jef_m", "jef_v"} ELSE {})
      \cup (IF Truthy(jelist) THEN {"sje"} ELSE {})

component_sens(ncols, rows, varlist, jelist) ==
    LET nmcmc == rows.betaU
    IN  IF nmcmc > rows.lamUz \/ nmcmc > rows.lamWs
        THEN [ok |-> FALSE, err |-> "IndexError", keys |-> {}, nmcmc |-> nmcmc, p |-> ncols, read |-> Rows(0, 0, 0)]
        ELSE [ok |-> TRUE, err |-> "", keys |-> ComponentKeys(varlist, jelist), nmcmc |-> nmcmc, p |-> ncols, read |-> Rows(nmcmc, nmcmc, nmcmc)]

(***************************************************************************)
(* sensitivity, lines 220-238: the keys of the returned bundle.            *)
(***************************************************************************)
\* variant: sjePm is added under the varlist test instead of the jelist test
BundleKeys_JointUnderVarlist(varlist, jelist) ==
    {"sa", "totalMean", "totalVar", "smePm", "stePm", "mef_m", "mef_sd", "tmef_m", "tmef_sd"}
      \cup (IF IsNotNone(varlist) THEN {"siePm", "jef_m", "jef_sd", "tjef_m", "tjef_sd", "sjePm"} ELSE {})

BundleKeys(varlist, jelist) ==
    {"sa", "totalMean", "totalVar", "smePm", "stePm", "mef_m", "mef_sd", "tmef_m", "tmef_sd"}
      \cup (IF IsNotNone(varlist) THEN {"siePm", "jef_m", "jef_sd", "tjef_m", "tjef_sd"} ELSE {})
      \cup (IF IsNotNone(jelist) THEN {"sjePm"} ELSE {})

\* line 101: the columns of betaU handed to component ii
BetaColumns(ii0, nv, ii) == [k \in 1 .. Len(ii0) |-> ii0[k] + ii * nv]

(***************************************************************************)
(* sensitivity, lines 118-218, by shapes: what the aggregation reads from  *)
(* the per-component dicts and the sizes of what it builds.                *)
(***************************************************************************)
Aggregate(pu, sa, rows, nv, ii0, varlist, jelist) ==
    LET npvec == rows.betaU
        looped == npvec > 0 /\ pu > 0
    IN  IF IsNotNone(varlist) /\ looped /\ (\E jj \in 1 .. pu : "sie" \notin sa[jj].keys)
        THEN Raise("KeyError")
        ELSE IF IsNotNone(jelist) /\ looped /\ (\E jj \in 1 .. pu : "sje" \notin sa[jj].keys)
        THEN Raise("KeyError")
        ELSE Return([keys |-> BundleKeys(varlist, jelist),
                     nv |-> nv,
                     dims |-> ii0,
                     npvec |-> npvec,
                     smePm |-> nv,
                     stePm |-> nv,
                     siePm |-> IF IsNotNone(varlist) THEN Len(varlist.pairs) ELSE 0,
                     sjePm |-> IF IsNotNone(jelist) THEN Len(jelist.pairs) ELSE 0,
                     totalVar |-> npvec,
                     saDraws |-> [jj \in 1 .. pu |-> sa[jj].nmcmc],
                     draws |-> rows,
                     read |-> sa[1].read,
                     pairs |-> IF IsNotNone(varlist) THEN varlist.pairs ELSE <<>>,
                     bind |-> [jj \in 1 .. pu |-> BetaColumns(ii0, nv, jj - 1)],
                     catLen |-> 0,
                     catIndex |-> <<>>])

(***************************************************************************)
(* The categorical flags of the distance computations.  cat_ind is built   *)
(* at line 99 over all p+q inputs and handed whole to component_sens       *)
(* (line 105), which gives all of it to the sample-to-sample distance      *)
(* (line 247) and its entry ii to the distances of column ii of x          *)
(* (lines 251-252, 257-258).                                               *)
(***************************************************************************)
\* the entry of cat_ind used for each column of x: cat_ind[[ii]], ii in range(p)
FlagIndex(ncols) == [k \in 1 .. ncols |-> k - 1]

\* the flags a completed call has used: the length of the vector given
\* to SepiaDistCov(x, cat_ind) and the entry used per column
DistanceFlags(r, ncat, ncols) ==
    IF r.kind = "bundle" THEN [r EXCEPT !.sens.catLen = ncat, !.sens.catIndex = FlagIndex(ncols)] ELSE r

(***************************************************************************)
(* sensitivity, lines 8-238: one call, from its arguments to its outcome.  *)
(***************************************************************************)
sensitivity(mdl, a) ==
    LET samples == ResolveSamples(mdl, a.samples_dict)
        act == ActiveDims(mdl.p + mdl.q, a.rg)
    IN  IF ~act.ok THEN Raise(act.err)
        ELSE IF act.nv = 0 THEN ReturnNone(MsgNoFree)
        ELSE LET opt == ResolveOption(a.option, samples)
             IN  IF ~opt.ok THEN ReturnNone(MsgInvalidOption)
                 ELSE LET varlist == ResolveVarlist(a.varlist, act.nv)
                          sa == [ii \in 1 .. mdl.pu |-> component_sens(Len(act.ii0), opt.rows, varlist, a.jelist)]
                      IN  IF \E ii \in 1 .. mdl.pu : ~sa[ii].ok
                          THEN Raise(sa[CHOOSE ii \in 1 .. mdl.pu : ~sa[ii].ok /\ \A kk \in 1 .. (ii - 1) : sa[kk].ok].err)
                          ELSE DistanceFlags(Aggregate(mdl.pu, sa, opt.rows, act.nv, act.ii0, varlist, a.jelist), mdl.p + mdl.q, Len(act.ii0))

(***************************************************************************)
(* sensitivity and component_sens by the arrays they touch.  A name of the *)
(* code is bound either to one of the arrays the caller and the model hold *)
(* (a reference or a view shares the array) or to an array made during the *)
(* call; an assignment into an array, or an augmented assignment, writes   *)
(* the array the name is bound to.  get_samples, SepiaDistCov and          *)
(* compute_cov_mat are not part of this source: get_samples is taken as a  *)
(* read accessor whose dict refers to the samples the model stores, and    *)
(* the other two as free to write the arrays they are given.               *)
(***************************************************************************)
ModelBuffers ==
    {"model.samples.betaU", "model.samples.lamUz", "model.samples.lamWs", "model.data.zt", "model.num.w",
     "model.data.sim_data.K", "model.data.sim_data.orig_y_mean", "model.data.sim_data.orig_y_sd",
     "model.data.x_cat_ind", "model.data.t_cat_ind"}

CallerBuffers ==
    {"samples_dict.betaU", "samples_dict.lamUz", "samples_dict.lamWs", "rg",
     "option.betaU", "option.lamUz", "option.lamWs"}

InputBuffers == ModelBuffers \cup CallerBuffers

\* an array made during the call
Local == "local"

Original == [b \in InputBuffers |-> "original"]

\* one statement: <<"input", name, array>> binds a name to an array of the
\* caller or the model; <<"alias", name, other>> binds it to what another
\* name is bound to (a reference, a basic slice, .T, reshape, squeeze);
\* <<"fresh", name>> binds it to a new array (np.zeros, np.mean, np.tile,
\* np.sum, indexing with a list or an array, arithmetic); <<"store", name>>
\* writes into the array the name is bound to
Assigns(op, name) == op[1] # "store" /\ op[2] = name

\* a name no statement has bound yet
Unbound == "unbound"

\* the array a name is bound to when statement i runs: what the last
\* statement before i that assigns the name bound it to
RECURSIVE BoundAt(_, _, _)
BoundAt(ops, i, name) ==
    LET before == {j \in 1 .. (i - 1) : Assigns(ops[j], name)}
    IN  IF before = {} THEN Unbound
        ELSE LET j == CHOOSE k \in before : \A l \in before : l <= k
             IN  IF ops[j][1] = "input" THEN ops[j][3]
                 ELSE IF ops[j][1] = "fresh" THEN Local
                 ELSE BoundAt(ops, j, ops[j][3])

\* the arrays of the caller and the model that the statements write into
Written(ops) == {BoundAt(ops, i, ops[i][2]) : i \in {k \in 1 .. Len(ops) : ops[k][1] = "store"}} \cap InputBuffers

\* the arrays of the caller and the model after the statements have run
Run(mem, ops) == [b \in InputBuffers |-> IF b \in Written(ops) THEN "overwritten" ELSE mem[b]]

\* lines 44-47
SamplesOps(a) ==
    IF a.samples_dict.given
    THEN <<(<<"input", "betaU", "samples_dict.betaU">>), <<"input", "lamUz", "samples_dict.lamUz">>,
           <<"input", "lamWs", "samples_dict.lamWs">>>>
    ELSE <<(<<"input", "betaU", "model.samples.betaU">>), <<"input", "lamUz", "model.samples.lamUz">>,
           <<"input", "lamWs", "model.samples.lamWs">>>>

\* lines 50-59
RangeOps(a, act) ==
    IF ~a.rg.given THEN <<(<<"fresh", "rg">>), <<"store", "rg">>>>
    ELSE <<(<<"input", "rg", "rg">>), <<"fresh", "ii0">>>>
           \o (IF act.ok /\ act.nv < Len(a.rg.mat) THEN <<(<<"fresh", "ii0">>), <<"fresh", "rg">>>> ELSE <<>>)

\* lines 67-69
GridOps == <<(<<"fresh", "xe">>), <<"store", "xe">>>>

\* variant: the reduction over the draws is written back into the arrays
ReduceDraws_InPlace(names) == [k \in 1 .. Len(names) |-> <<"store", names[k]>>]

\* lines 75-77, 79-81: np.mean / np.median return new arrays
ReduceDraws(names) == [k \in 1 .. Len(names) |-> <<"fresh", names[k]>>]

\* lines 72-85
OptionOps(a) ==
    IF a.option.kind = "dict"
    THEN <<(<<"input", "betaU", "option.betaU">>), <<"input", "lamUz", "option.lamUz">>,
           <<"input", "lamWs", "option.lamWs">>>>
    ELSE IF a.option.name \in {"mean", "median"} THEN ReduceDraws(<<"betaU", "lamUz", "lamWs">>)
    ELSE <<>>

\* lines 96-99
SetupOps ==
    <<(<<"input", "sim_xt", "model.data.zt">>), <<"input", "w", "model.num.w">>, <<"fresh", "cat_ind">>,
      <<"fresh", "sa">>>>

\* lines 101-105 and 242-273 for one component: the arguments, the
\* distance objects and the GP arrays up to the loop over the draws
ComponentHeadOps ==
    <<(<<"fresh", "bind">>), <<"fresh", "betaU_sub">>, <<"alias", "lamUz_sub", "lamUz">>,
      <<"alias", "lamWs_sub", "lamWs">>, <<"fresh", "x">>, <<"alias", "y", "w">>,
      <<"fresh", "diff">>,
      <<"store", "x">>, <<"store", "cat_ind">>, <<"store", "xe">>,
      <<"fresh", "P">>, <<"fresh", "Q">>, <<"fresh", "My">>,
      <<"alias", "betaei", "betaU_sub">>, <<"store", "betaei">>,
      <<"fresh", "S">>, <<"store", "P">>, <<"store", "My">>, <<"store", "Q">>>>

\* lines 276-363 for one component
ComponentTailOps ==
    <<(<<"fresh", "e0">>), <<"fresh", "e2">>, <<"fresh", "vt">>, <<"fresh", "sme">>, <<"fresh", "ste">>,
      <<"fresh", "mef_m">>, <<"fresh", "mef_v">>, <<"fresh", "sie">>, <<"fresh", "jef_m">>,
      <<"fresh", "jef_v">>, <<"fresh", "sje">>,
      <<"fresh", "c1">>, <<"fresh", "C2">>, <<"store", "C2">>, <<"fresh", "c3">>, <<"store", "c3">>,
      <<"store", "e2">>, <<"store", "e0">>, <<"store", "vt">>, <<"store", "sme">>, <<"store", "mef_m">>,
      <<"store", "mef_v">>, <<"store", "ste">>, <<"store", "sie">>, <<"store", "jef_m">>,
      <<"store", "jef_v">>, <<"store", "sje">>>>

\* lines 100-105: the components in turn; a component that fails ends the call
RECURSIVE ComponentOps(_, _)
ComponentOps(sa, ii) ==
    IF ii > Len(sa) THEN <<>>
    ELSE IF ~sa[ii].ok THEN ComponentHeadOps
    ELSE ComponentHeadOps \o ComponentTailOps \o ComponentOps(sa, ii + 1)

\* lines 107-134
AggregateIndexOps ==
    <<(<<"input", "ymean", "model.data.sim_data.orig_y_mean">>),
      <<"input", "ysd", "model.data.sim_data.orig_y_sd">>,
      <<"input", "ksmm", "model.data.sim_data.K">>,
      <<"fresh", "lam">>, <<"fresh", "sme">>, <<"fresh", "ste">>, <<"fresh", "vt">>,
      <<"store", "sme">>, <<"store", "ste">>, <<"store", "vt">>>>

\* lines 136-218
UnscalingOps ==
    <<(<<"fresh", "sie">>), <<"store", "sie">>, <<"fresh", "sje">>, <<"store", "sje">>,
      <<"fresh", "e0">>, <<"fresh", "mef_m">>, <<"fresh", "mef_sd">>, <<"fresh", "meanmat">>,
      <<"fresh", "ysdmat">>, <<"store", "e0">>, <<"store", "mef_m">>, <<"store", "mef_sd">>,
      <<"fresh", "tmef_m">>, <<"store", "tmef_m">>, <<"fresh", "tmef_sd">>, <<"store", "tmef_sd">>,
      <<"fresh", "tmp">>, <<"store", "tmp">>, <<"store", "tmef_sd">>,
      <<"fresh", "jef_m">>, <<"fresh", "jef_sd">>, <<"store", "jef_m">>, <<"store", "jef_sd">>,
      <<"fresh", "tjef_m">>, <<"store", "tjef_m">>, <<"fresh", "tjef_sd">>, <<"store", "tjef_sd">>,
      <<"fresh", "tmp">>, <<"store", "tmp">>, <<"store", "tjef_sd">>>>

\* the arrays of the caller and the model after the call sensitivity(mdl, a),
\* wherever the call ends
sensitivity_memory(mdl, a, mem) ==
    LET samples == ResolveSamples(mdl, a.samples_dict)
        act == ActiveDims(mdl.p + mdl.q, a.rg)
        opt == ResolveOption(a.option, samples)
        varlist == ResolveVarlist(a.varlist, act.nv)
        sa == [ii \in 1 .. mdl.pu |-> component_sens(Len(act.ii0), opt.rows, varlist, a.jelist)]
        head == SamplesOps(a) \o RangeOps(a, act)
        components == head \o GridOps \o OptionOps(a) \o SetupOps \o ComponentOps(sa, 1)
    IN  IF ~act.ok \/ act.nv = 0 THEN Run(mem, head)
        ELSE IF ~opt.ok THEN Run(mem, head \o GridOps)
        ELSE IF \E ii \in 1 .. mdl.pu : ~sa[ii].ok THEN Run(mem, components)
        ELSE IF sensitivity(mdl, a).kind = "raise" THEN Run(mem, components \o AggregateIndexOps)
        ELSE Run(mem, components \o AggregateIndexOps \o UnscalingOps)

(***************************************************************************)
(* Numbers.  The source computes in floating point; the model computes     *)
(* the same expressions exactly, over integers where the source only adds  *)
(* and multiplies and over fractions <<n, d>> (d > 0, lowest terms) where  *)
(* it divides.  A division by zero gives NaN, which every later operation  *)
(* keeps.                                                                  *)
(***************************************************************************)
Abs(x) == IF x < 0 THEN -x ELSE x

RECURSIVE Gcd(_, _)
Gcd(a, b) == IF b = 0 THEN a ELSE Gcd(b, a % b)

NaN == <<0, 0>>

IsFinite(x) == x[2] # 0

RNorm(x) ==
    IF x[2] = 0 THEN NaN
    ELSE LET g == Gcd(Abs(x[1]), Abs(x[2]))
             sgn == IF x[2] < 0 THEN -1 ELSE 1
         IN  <<sgn * (x[1] \div g), sgn * (x[2] \div g)>>

R(n) == <<n, 1>>

\* a[1]/a[2] + s * b[1]/b[2] over the least common denominator
RAddScaled(a, b, s) ==
    LET g == Gcd(a[2], b[2])
    IN  RNorm(<<a[1] * (b[2] \div g) + s * b[1] * (a[2] \div g), (a[2] \div g) * b[2]>>)

\* (a[1] * b[1]) / (a[2] * b[2]), common factors cancelled before multiplying
RMulCancelled(a1, a2, b1, b2) ==
    IF a2 = 0 \/ b2 = 0 THEN NaN
    ELSE LET g1 == Gcd(Abs(a1), Abs(b2))
             g2 == Gcd(Abs(b1), Abs(a2))
             h1 == IF g1 = 0 THEN 1 ELSE g1
             h2 == IF g2 = 0 THEN 1 ELSE g2
         IN  RNorm(<<(a1 \div h1) * (b1 \div h2), (a2 \div h2) * (b2 \div h1)>>)

RAdd(a, b) == IF IsFinite(a) /\ IsFinite(b) THEN RAddScaled(a, b, 1) ELSE NaN

RSub(a, b) == IF IsFinite(a) /\ IsFinite(b) THEN RAddScaled(a, b, -1) ELSE NaN

RMul(a, b) == IF IsFinite(a) /\ IsFinite(b) THEN RMulCancelled(a[1], a[2], b[1], b[2]) ELSE NaN

RDiv(a, b) == IF IsFinite(a) /\ IsFinite(b) THEN RMulCancelled(a[1], a[2], b[2], b[1]) ELSE NaN

\* |a - b| <= num/den, false when either is NaN
RClose(a, b, num, den) ==
    /\ IsFinite(a)
    /\ IsFinite(b)
    /\ LET d == RSub(a, b) IN Abs(d[1]) * den <= num * d[2]

\* np.prod over the entries of row at the indices idx (1 for no index)
RECURSIVE ProdAt(_, _)
ProdAt(row, idx) == IF idx = <<>> THEN 1 ELSE row[Head(idx)] * ProdAt(row, Tail(idx))

\* np.zeros((m, m))
Zeros(m) == [i \in Range(m) |-> [j \in Range(m) |-> 0]]

(***************************************************************************)
(* varf, lines 391-407.  C2 is the lookup table of calc2, read row by row  *)
(* with the running counter kk; ef has one factor per sample, or none.     *)
(***************************************************************************)
\* lines 395-400: the entries above the diagonal
RECURSIVE VarfUpper(_, _, _, _, _, _, _, _, _)
VarfUpper(m, Js, ll, C2, ef, ii, jj, kk, Vf) ==
    IF ii >= m - 1 THEN [Vf |-> Vf, kk |-> kk]
    ELSE IF jj >= m THEN VarfUpper(m, Js, ll, C2, ef, ii + 1, ii + 2, kk, Vf)
    ELSE LET v1 == IF Len(Js) # 0 THEN ProdAt(C2[kk], Js) ELSE 1
             v2 == IF Len(ll) # 0 THEN v1 * ef[ii] * ef[jj] ELSE v1
         IN  VarfUpper(m, Js, ll, C2, ef, ii, jj + 1, kk + 1, [Vf EXCEPT ![ii][jj] = v2])

\* variant: the transpose is not added, the lower triangle stays zero
AddTranspose_Skipped(m, Vf) == Vf

\* line 401: Vf + Vf.T
AddTranspose(m, Vf) == [i \in Range(m) |-> [j \in Range(m) |-> Vf[i][j] + Vf[j][i]]]

\* the value of kk when line 398 reads C2 for the pair (ii, jj), ii < jj
UpperRow(m, ii, jj) == ii * m - (ii * (ii + 1)) \div 2 + (jj - ii - 1)

\* the value of kk when line 405 reads C2 for the diagonal entry ii
DiagRow(m, ii) == (m * (m - 1)) \div 2 + 1 + ii

\* variant: the diagonal leaves the table out (Vf[ii, ii] stays 1 before the ef factor)
RECURSIVE VarfDiag_TableSkipped(_, _, _, _, _, _, _, _)
VarfDiag_TableSkipped(m, Js, ll, C2, ef, ii, kk, Vf) ==
    IF ii >= m THEN Vf
    ELSE LET v2 == IF Len(ll) # 0 THEN ef[ii] * ef[ii] ELSE 1
         IN  VarfDiag_TableSkipped(m, Js, ll, C2, ef, ii + 1, kk + 1, [Vf EXCEPT ![ii][ii] = v2])

\* lines 402-406: the diagonal
RECURSIVE VarfDiag(_, _, _, _, _, _, _, _)
VarfDiag(m, Js, ll, C2, ef, ii, kk, Vf) ==
    IF ii >= m THEN Vf
    ELSE LET v1 == IF Len(Js) # 0 THEN ProdAt(C2[kk + 1], Js) ELSE 1
             v2 == IF Len(ll) # 0 THEN v1 * (ef[ii] * ef[ii]) ELSE v1
         IN  VarfDiag(m, Js, ll, C2, ef, ii + 1, kk + 1, [Vf EXCEPT ![ii][ii] = v2])

\* whether varf indexes ef or C2 out of range (IndexError)
VarfRaises(m, p, Js, C2, ef) ==
    \/ Len(setxor1d(RangeSeq(p), Js)) # 0 /\ \E i \in Range(m) : i \notin DOMAIN ef
    \/ Len(Js) # 0 /\ \E r \in Range((m * (m - 1)) \div 2 + m + 1) : r \notin DOMAIN C2

varf(m, p, Js, C2, ef) ==
    LET ll == setxor1d(RangeSeq(p), Js)
        up == VarfUpper(m, Js, ll, C2, ef, 0, 1, 0, Zeros(m))
    IN  VarfDiag(m, Js, ll, C2, ef, 0, up.kk, AddTranspose(m, up.Vf))

(***************************************************************************)
(* calc2, lines 371-383, and the rows varf reads, lines 392-405, by row    *)
(* index.  A table row holds the pair of samples it was filled for; rows   *)
(* np.zeros made and no loop wrote hold Unwritten.                         *)
(***************************************************************************)
Unwritten == [kind |-> "zeros", ii |-> -1, jj |-> -1]

PairRow(ii, jj) == [kind |-> "pair", ii |-> ii, jj |-> jj]

SelfRow(ii) == [kind |-> "self", ii |-> ii, jj |-> ii]

\* line 373: np.zeros((int(m*(m+1)/2) + m, ...))
TableRows(m) == (m * (m + 1)) \div 2 + m

\* C2[kk, :] = v; an index outside the table is an IndexError
WriteRow(t, kk, v) ==
    IF t.ok /\ kk \in DOMAIN t.rows THEN [t EXCEPT !.rows[kk] = v] ELSE [t EXCEPT !.ok = FALSE]

\* lines 374-379: one row per pair ii < jj, then kk += 1
RECURSIVE Calc2Upper(_, _, _, _, _)
Calc2Upper(m, ii, jj, kk, t) ==
    IF ii >= m THEN [t |-> t, kk |-> kk]
    ELSE IF jj >= m THEN Calc2Upper(m, ii + 1, ii + 2, kk, t)
    ELSE Calc2Upper(m, ii, jj + 1, kk + 1, WriteRow(t, kk, PairRow(ii, jj)))

\* variant: the row of a sample is written before the counter is stepped
RECURSIVE Calc2Diag_WriteBeforeStep(_, _, _, _)
Calc2Diag_WriteBeforeStep(m, ii, kk, t) ==
    IF ii >= m THEN t
    ELSE Calc2Diag_WriteBeforeStep(m, ii + 1, kk + 1, WriteRow(t, kk, SelfRow(ii)))

\* lines 380-382: kk += 1, then the row of sample ii
RECURSIVE Calc2Diag(_, _, _, _)
Calc2Diag(m, ii, kk, t) ==
    IF ii >= m THEN t
    ELSE Calc2Diag(m, ii + 1, kk + 1, WriteRow(t, kk + 1, SelfRow(ii)))

calc2(m) ==
    LET up == Calc2Upper(m, 0, 1, 0, [ok |-> TRUE, rows |-> [r \in Range(TableRows(m)) |-> Unwritten]])
    IN  Calc2Diag(m, 0, up.kk, up.t)

\* no row of the table is read for an entry
NoRead == -1

\* lines 395-400: the counter kk at each read C2[kk, Js] above the diagonal
RECURSIVE VarfUpperReads(_, _, _, _, _, _)
VarfUpperReads(m, Js, ii, jj, kk, reads) ==
    IF ii >= m - 1 THEN [reads |-> reads, kk |-> kk]
    ELSE IF jj >= m THEN VarfUpperReads(m, Js, ii + 1, ii + 2, kk, reads)
    ELSE VarfUpperReads(m, Js, ii, jj + 1, kk + 1,
                        IF Len(Js) # 0 THEN [reads EXCEPT ![ii][jj] = kk] ELSE reads)

\* lines 402-405: kk += 1, then the read C2[kk, Js] of the diagonal entry
RECURSIVE VarfDiagReads(_, _, _, _, _)
VarfDiagReads(m, Js, ii, kk, reads) ==
    IF ii >= m THEN reads
    ELSE VarfDiagReads(m, Js, ii + 1, kk + 1,
                       IF Len(Js) # 0 THEN [reads EXCEPT ![ii][ii] = kk + 1] ELSE reads)

\* the table row read for each entry of Vf that the loops assign
varf_reads(m, Js) ==
    LET up == VarfUpperReads(m, Js, 0, 1, 0, [i \in Range(m) |-> [j \in Range(m) |-> NoRead]])
    IN  VarfDiagReads(m, Js, 0, up.kk, up.reads)

(***************************************************************************)
(* component_sens by values, for one draw of one basis component.          *)
(* The outputs of calc1, calc2, calc3 (c1, C2, c3) and the inverse P of    *)
(* the training covariance are inputs here; what is modelled is what the   *)
(* source builds from them.                                                *)
(***************************************************************************)
RECURSIVE SumTo(_, _)
SumTo(f, n) == IF n = 0 THEN 0 ELSE f[n - 1] + SumTo(f, n - 1)

\* np.trace(A @ B) for m x m matrices
TraceMatmul(m, A, B) == SumTo([i \in Range(m) |-> SumTo([k \in Range(m) |-> A[i][k] * B[k][i]], m)], m)

\* np.matmul(a.T, b) for vectors
Dot(m, a, b) == SumTo([i \in Range(m) |-> a[i] * b[i]], m)

\* lines 270-273: My = S^-1 y and Q = P - My My^T, with P = S^-1
GPWeights(m, P, y) == [i \in Range(m) |-> SumTo([k \in Range(m) |-> P[i][k] * y[k]], m)]

GPQ(m, P, My) == [i \in Range(m) |-> [j \in Range(m) |-> P[i][j] - My[i] * My[j]]]

\* np.prod(c3[:, ll], 1)
RowProds(m, c3, ll) == [r \in Range(m) |-> ProdAt(c3[r], ll)]

\* u/lamUzi - np.trace(Q @ V)/lamUzi**2 - e2, the form of lines 311, 319, 327
Numerator(m, u, lamUzi, Q, V, e2) ==
    RSub(RSub(RDiv(R(u), R(lamUzi)), RDiv(R(TraceMatmul(m, Q, V)), R(lamUzi * lamUzi))), e2)

\* lines 307-308
SquaredMean(m, p, lamUzi, c1, c3, C2, Q) ==
    LET u2 == RowProds(m, c3, RangeSeq(p))
    IN  RSub(RDiv(R(ProdAt(c1, RangeSeq(p))), R(lamUzi)), RDiv(R(TraceMatmul(m, Q, varf(m, p, <<>>, C2, u2))), R(lamUzi * lamUzi)))

\* line 311
TotalVariance(m, p, lamUzi, C2, Q, e2) == Numerator(m, 1, lamUzi, Q, varf(m, p, RangeSeq(p), C2, <<>>), e2)

\* variant: the main-effect numerator integrates the dimension itself out
\* (the roles of Js and its complement exchanged)
MainEffectRaw_Swapped(m, p, jj, lamUzi, c1, c3, C2, Q, e2) ==
    LET ll == <<jj>>
        Js == setxor1d(RangeSeq(p), ll)
    IN  Numerator(m, ProdAt(c1, ll), lamUzi, Q, varf(m, p, Js, C2, RowProds(m, c3, ll)), e2)

\* lines 315-319: the main-effect numerator of dimension jj
MainEffectRaw(m, p, jj, lamUzi, c1, c3, C2, Q, e2) ==
    LET Js == <<jj>>
        ll == setxor1d(RangeSeq(p), Js)
        u1 == RowProds(m, c3, ll)
        u4 == ProdAt(c1, ll)
    IN  Numerator(m, u4, lamUzi, Q, varf(m, p, Js, C2, u1), e2)

\* lines 324-327: the total-effect numerator of dimension jj
TotalEffectRaw(m, p, jj, lamUzi, c1, c3, C2, Q, e2) ==
    LET ll == <<jj>>
        Js == setxor1d(RangeSeq(p), ll)
        u2 == RowProds(m, c3, ll)
    IN  Numerator(m, ProdAt(c1, ll), lamUzi, Q, varf(m, p, Js, C2, u2), e2)

\* lines 297-328 for one draw
component_sens_draw(m, p, lamUzi, c1, c3, C2, P, y) ==
    LET My == GPWeights(m, P, y)
        Q == GPQ(m, P, My)
        e2 == SquaredMean(m, p, lamUzi, c1, c3, C2, Q)
        e0 == RDiv(R(Dot(m, RowProds(m, c3, RangeSeq(p)), My)), R(lamUzi))
        vt == TotalVariance(m, p, lamUzi, C2, Q, e2)
        smeRaw == [jj \in Range(p) |-> MainEffectRaw(m, p, jj, lamUzi, c1, c3, C2, Q, e2)]
        steRaw == [jj \in Range(p) |-> TotalEffectRaw(m, p, jj, lamUzi, c1, c3, C2, Q, e2)]
    IN  [e0 |-> e0, e2 |-> e2, vt |-> vt,
         smeRaw |-> smeRaw,
         steRaw |-> steRaw,
         sme |-> [jj \in Range(p) |-> RDiv(smeRaw[jj], vt)],
         ste |-> [jj \in Range(p) |-> RSub(R(1), RDiv(steRaw[jj], vt))]]

\* np.trace(A * B): the product is elementwise, so only the diagonals meet
TraceElementwise(m, A, B) == SumTo([i \in Range(m) |-> A[i][i] * B[i][i]], m)

\* u/lamUzi - np.trace(Q * V)/lamUzi**2 - e2, the form of lines 336 and 348
NumeratorElementwise(m, u, lamUzi, Q, V, e2) ==
    RSub(RSub(RDiv(R(u), R(lamUzi)), RDiv(R(TraceElementwise(m, Q, V)), R(lamUzi * lamUzi))), e2)

\* lines 332-336: the numerator of the pair Js = varlist[jj]
InteractionRaw(m, p, Js, lamUzi, c1, c3, C2, Q, e2) ==
    LET ll == setxor1d(RangeSeq(p), Js)
        u3 == RowProds(m, c3, ll)
        u5 == ProdAt(c1, ll)
    IN  NumeratorElementwise(m, u5, lamUzi, Q, varf(m, p, Js, C2, u3), e2)

\* lines 344-348: the numerator of the index set Js = jelist[jj]
JointRaw(m, p, Js, lamUzi, c1, c3, C2, Q, e2) ==
    LET ll == setxor1d(RangeSeq(p), Js)
        u6 == RowProds(m, c3, ll)
        u7 == ProdAt(c1, ll)
    IN  NumeratorElementwise(m, u7, lamUzi, Q, varf(m, p, Js, C2, u6), e2)

\* lines 329-349 for one draw: sie and sje next to the values of the draw
component_sens_pairs(m, p, lamUzi, c1, c3, C2, P, y, sa, varlist, jelist) ==
    LET Q == GPQ(m, P, GPWeights(m, P, y))
        sieRaw == [jj \in 1 .. Len(varlist) |-> InteractionRaw(m, p, varlist[jj], lamUzi, c1, c3, C2, Q, sa.e2)]
        sjeRaw == [jj \in 1 .. Len(jelist) |-> JointRaw(m, p, jelist[jj], lamUzi, c1, c3, C2, Q, sa.e2)]
    IN  [sieRaw |-> sieRaw,
         sie |-> [jj \in 1 .. Len(varlist) |-> RSub(RSub(RDiv(sieRaw[jj], sa.vt), sa.sme[varlist[jj][1]]), sa.sme[varlist[jj][2]])],
         sjeRaw |-> sjeRaw,
         sje |-> [jj \in 1 .. Len(jelist) |-> RDiv(sjeRaw[jj], sa.vt)]]

(***************************************************************************)
(* sensitivity by values, lines 112-134: the weights lam of the basis      *)
(* components and the aggregated indices.                                  *)
(***************************************************************************)
\* lines 113-116: ksmm = K.T, or [[1]] without a basis
BasisT(K, pu, ny) ==
    IF K.given THEN [r \in Range(ny) |-> [jj \in Range(pu) |-> K.mat[jj][r]]]
    ELSE [r \in Range(1) |-> [jj \in Range(1) |-> 1]]

\* line 119: lam = np.diag(ksmm.T @ ksmm)
BasisEnergy(ksmm, nrows, ncols) ==
    [jj \in Range(ncols) |-> SumTo([r \in Range(nrows) |-> ksmm[r][jj] * ksmm[r][jj]], nrows)]

\* variant: the component's variance sa[jj]['vt'][ii] is left out of the weight
WeightedTerm_NoVariance(lamjj, index, vtjj) == RMul(R(lamjj), index)

\* lines 126-127: lam[jj] * sa[jj][..][ii, k] * sa[jj]['vt'][ii]
WeightedTerm(lamjj, index, vtjj) == RMul(RMul(R(lamjj), index), vtjj)

\* lines 125-128: the sums over jj in range(pu), accumulated in loop order
RECURSIVE AccumulateIndex(_, _, _, _, _, _, _)
AccumulateIndex(sa, lam, ii, k, field, pu, jj) ==
    IF jj >= pu THEN R(0)
    ELSE RAdd(WeightedTerm(lam[jj], sa[jj][ii][field][k], sa[jj][ii].vt), AccumulateIndex(sa, lam, ii, k, field, pu, jj + 1))

RECURSIVE AccumulateVariance(_, _, _, _, _)
AccumulateVariance(sa, lam, ii, pu, jj) ==
    IF jj >= pu THEN R(0)
    ELSE RAdd(RMul(R(lam[jj]), sa[jj][ii].vt), AccumulateVariance(sa, lam, ii, pu, jj + 1))

\* np.mean(a, 0) over the draws
RECURSIVE RSumTo(_, _)
RSumTo(f, n) == IF n = 0 THEN R(0) ELSE RAdd(f[n - 1], RSumTo(f, n - 1))

MeanOverDraws(a, npvec, k) == RDiv(RSumTo([ii \in Range(npvec) |-> a[ii][k]], npvec), R(npvec))

\* lines 118-134
AggregateIndices(sa, lam, pu, npvec, nv) ==
    LET vt == [ii \in Range(npvec) |-> AccumulateVariance(sa, lam, ii, pu, 0)]
        sme == [ii \in Range(npvec) |-> [k \in Range(nv) |-> RDiv(AccumulateIndex(sa, lam, ii, k, "sme", pu, 0), vt[ii])]]
        ste == [ii \in Range(npvec) |-> [k \in Range(nv) |-> RDiv(AccumulateIndex(sa, lam, ii, k, "ste", pu, 0), vt[ii])]]
    IN  [sme |-> sme, ste |-> ste, totalVar |-> vt,
         smePm |-> [k \in Range(nv) |-> MeanOverDraws(sme, npvec, k)],
         stePm |-> [k \in Range(nv) |-> MeanOverDraws(ste, npvec, k)]]

(***************************************************************************)
(* The fitted models and the arguments of a call.                          *)
(***************************************************************************)
Models == [p : 1 .. MaxP, q : 0 .. MaxQ, pu : 1 .. MaxPu, N : 1 .. MaxDraws]

DrawCounts == 1 .. MaxDraws

SampleDicts == {[given |-> FALSE, rows |-> Rows(0, 0, 0)]} \cup {[given |-> TRUE, rows |-> Rows(n, n, n)] : n \in DrawCounts}

OptionNames == {"samples", "mean", "median", "bogus"}

Options ==
    {[kind |-> "str", name |-> s, rows |-> Rows(0, 0, 0)] : s \in OptionNames}
      \cup {[kind |-> "dict", name |-> "", rows |-> Rows(b, u, w)] : b \in DrawCounts, u \in DrawCounts, w \in DrawCounts}

NoList == [kind |-> "None", pairs |-> <<>>]

Varlists(nv) ==
    {NoList, [kind |-> "all", pairs |-> <<>>], [kind |-> "list", pairs |-> <<>>]}
      \cup (IF nv >= 2 THEN {[kind |-> "list", pairs |-> <<(<<0, nv - 1>>)>>]} ELSE {})

Jelists(nv) ==
    {NoList, [kind |-> "list", pairs |-> <<>>], [kind |-> "list", pairs |-> <<(<<nv - 1>>)>>]}

NoRange == [given |-> FALSE, mat |-> <<>>]

Ranges(nv) ==
    {NoRange} \cup {[given |-> TRUE, mat |-> f] : f \in [Range(nv) -> {<<0, 1>>, <<1, 1>>}]}

CallArgs(mdl) ==
    [samples_dict : SampleDicts, option : Options, varlist : Varlists(mdl.p + mdl.q), jelist : Jelists(mdl.p + mdl.q), rg : Ranges(mdl.p + mdl.q)]

NoCall == [fn |-> "none"]

NoVarf == [fn |-> "none"]

NoNum == [fn |-> "none"]

NoModel == [fn |-> "none"]

NoData == [fn |-> "none"]

NoHeap == [fn |-> "none"]

(***************************************************************************)
(* Specification Spec: a fitted model and a caller that calls sensitivity  *)
(* and takes the outcome.                                                  *)
(***************************************************************************)
Init ==
    /\ model \in Models
    /\ call = NoCall
    /\ result = Idle
    /\ varfIn = NoVarf
    /\ varfOut = NoVarf
    /\ numIn = NoNum
    /\ numOut = NoNum
    /\ data = NoData
    /\ heap = NoHeap

Call ==
    /\ result.kind = "idle"
    /\ \E a \in CallArgs(model) :
          /\ call' = a
          /\ result' = sensitivity(model, a)
    /\ UNCHANGED <<model, varfIn, varfOut, numIn, numOut, data, heap>>

TakeResult ==
    /\ result.kind # "idle"
    /\ call' = NoCall
    /\ result' = Idle
    /\ UNCHANGED <<model, varfIn, varfOut, numIn, numOut, data, heap>>

Next == Call \/ TakeResult

Spec == Init /\ [][Next]_vars

(***************************************************************************)
(* Properties of a call (specification Spec).                              *)
(***************************************************************************)
Called == result.kind # "idle"

\* the dimensions of rg whose min equals their max
Degenerate(rg) == {i \in DOMAIN rg.mat : rg.mat[i][1] = rg.mat[i][2]}

ValidOption(o) == o.kind = "dict" \/ o.name \in {"mean", "median", "samples"}

\* the arrays of a dict-valued option have one row count
ConsistentRows(o) == o.kind = "dict" => (o.rows.betaU = o.rows.lamUz /\ o.rows.betaU = o.rows.lamWs)

\* a call whose arguments other than rg are the plain ones
PlainRest(a) == ValidOption(a.option) /\ ConsistentRows(a.option) /\ a.varlist.kind = "None" /\ a.jelist.kind = "None"

\* C1 (as claimed): with exactly one dimension of rg degenerate and the
\* others free, the call completes and smePm, stePm have p+q-1 entries,
\* indexed by the retained dimensions in their original order.
C1_DegenerateDimensionDropped ==
    (Called /\ call.rg.given /\ model.p + model.q >= 2 /\ Cardinality(Degenerate(call.rg)) = 1 /\ PlainRest(call))
      => /\ result.kind = "bundle"
         /\ result.sens.smePm = model.p + model.q - 1
         /\ result.sens.stePm = model.p + model.q - 1
         /\ result.sens.dims = SortedSeq(Range(model.p + model.q) \ Degenerate(call.rg))

\* C2 (as claimed): an option that is none of 'mean', 'median', 'samples'
\* or a dict makes the call fail with an InvalidOption error.
C2_InvalidOptionRaises ==
    (Called /\ ~ValidOption(call.option))
      => (result.kind = "raise" /\ result.err = "InvalidOption")

\* C2 (amended): an option that is none of 'mean', 'median', 'samples' or a
\* dict never yields a result bundle and never an InvalidOption error; when
\* no rg is given the call prints the message naming the accepted options
\* and returns None.
C2_InvalidOptionPrintsAndReturnsNone ==
    (Called /\ ~ValidOption(call.option))
      => /\ result.kind # "bundle"
         /\ result.err # "InvalidOption"
         /\ ~call.rg.given => (result.kind = "none" /\ result.printed = MsgInvalidOption)

C2_Witness ==
    /\ Called
    /\ ~ValidOption(call.option)
    /\ ~call.rg.given
    /\ call.varlist.kind = "all"
    /\ result.kind = "none"
    /\ result.printed = MsgInvalidOption

\* C3 (as claimed): when every dimension of the supplied rg has min == max,
\* the call aborts with an EmptyDomainError and produces no result.
C3_EmptyDomainRaises ==
    (Called /\ call.rg.given /\ Degenerate(call.rg) = Range(model.p + model.q))
      => (result.kind = "raise" /\ result.err = "EmptyDomainError")

\* C5: a returned bundle holds the nine base keys; the five pair keys are
\* present exactly when varlist is not None and sjePm exactly when jelist
\* is not None.
BaseKeys == {"sa", "totalMean", "totalVar", "smePm", "stePm", "mef_m", "mef_sd", "tmef_m", "tmef_sd"}

PairKeys == {"siePm", "jef_m", "jef_sd", "tjef_m", "tjef_sd"}

C5_BundleKeys ==
    result.kind = "bundle"
      => /\ BaseKeys \subseteq result.sens.keys
         /\ \A k \in PairKeys : (k \in result.sens.keys) <=> (call.varlist.kind # "None")
         /\ ("sjePm" \in result.sens.keys) <=> (call.jelist.kind # "None")
         /\ result.sens.keys \subseteq (BaseKeys \cup PairKeys \cup {"sjePm"})

C5_Witness ==
    /\ result.kind = "bundle"
    /\ call.varlist.kind = "list"
    /\ call.jelist.kind = "None"
    /\ PairKeys \subseteq result.sens.keys
    /\ "sjePm" \notin result.sens.keys

\* the pairs of a list are pairs i<j below n in strictly increasing
\* lexicographic order
LexPairs(ps, n) ==
    /\ \A k \in DOMAIN ps : ps[k][1] >= 0 /\ ps[k][1] < ps[k][2] /\ ps[k][2] < n
    /\ \A k \in DOMAIN ps : \A l \in DOMAIN ps :
          k < l => (ps[k][1] < ps[l][1] \/ (ps[k][1] = ps[l][1] /\ ps[k][2] < ps[l][2]))

\* C6 (as claimed): with varlist 'all' the call returns siePm with exactly
\* nv(nv-1)/2 entries, one per pair i<j of the active dimensions in
\* lexicographic order, for every nv >= 1 (no entry when nv = 1).
C6_AllPairs ==
    (Called /\ call.varlist.kind = "all" /\ ~call.rg.given /\ ValidOption(call.option) /\ ConsistentRows(call.option) /\ call.jelist.kind = "None")
      => /\ result.kind = "bundle"
         /\ 2 * result.sens.siePm = (model.p + model.q) * (model.p + model.q - 1)
         /\ Len(result.sens.pairs) = result.sens.siePm
         /\ LexPairs(result.sens.pairs, model.p + model.q)

\* the number of draws the option asks for
ExpectedDraws(mdl, a) ==
    IF a.option.kind = "dict" THEN a.option.rows.betaU
    ELSE IF a.option.name = "samples" THEN (IF a.samples_dict.given THEN a.samples_dict.rows.betaU ELSE mdl.N)
    ELSE 1

\* C9: the draws of a returned bundle are those the option selects: all of
\* the sample set for 'samples', one summary draw of each of betaU, lamUz
\* and lamWs for 'mean' and 'median', the dict's rows for a dict; totalVar
\* and every component's arrays have that many entries along the draw axis
\* and the three arrays are read over that same number of draws.
C9_DrawCount ==
    result.kind = "bundle"
      => /\ result.sens.npvec = ExpectedDraws(model, call)
         /\ result.sens.totalVar = result.sens.npvec
         /\ Len(result.sens.saDraws) = model.pu
         /\ \A jj \in DOMAIN result.sens.saDraws : result.sens.saDraws[jj] = result.sens.npvec
         /\ result.sens.read = Rows(result.sens.npvec, result.sens.npvec, result.sens.npvec)
         /\ (call.option.kind = "str" /\ call.option.name \in {"mean", "median"}) => result.sens.draws = Rows(1, 1, 1)

C9_Witness ==
    /\ result.kind = "bundle"
    /\ call.option.kind = "str"
    /\ call.option.name = "median"
    /\ ~call.samples_dict.given
    /\ model.N >= 2
    /\ model.pu >= 2
    /\ result.sens.npvec = 1
    /\ result.sens.totalVar = 1

\* C12 (as claimed): a call whose parameter arrays betaU, lamUz, lamWs
\* disagree in their number of draws (all other arguments at their defaults)
\* is rejected with a DimensionMismatch error: it neither fails with another
\* error inside the loops nor returns a result.
C12_MismatchRejected ==
    (Called /\ ~call.rg.given /\ call.varlist.kind = "None" /\ call.jelist.kind = "None" /\ ~ConsistentRows(call.option))
      => /\ result.kind = "raise"
         /\ result.err = "DimensionMismatch"

\* C17 (as claimed): when rg makes some dimensions degenerate (and not
\* all), the call completes and component jj is given, for the k-th
\* retained dimension d, column jj*(p+q)+d of betaU.
C17_ColumnsAfterDrop ==
    (Called /\ call.rg.given /\ Degenerate(call.rg) # {} /\ Degenerate(call.rg) # DOMAIN call.rg.mat /\ PlainRest(call))
      => /\ result.kind = "bundle"
         /\ LET kept == SortedSeq(Range(model.p + model.q) \ Degenerate(call.rg))
            IN  \A jj \in 1 .. model.pu :
                    result.sens.bind[jj] = [k \in 1 .. Len(kept) |-> (jj - 1) * (model.p + model.q) + kept[k]]

\* the other half of C17, which holds: with no rg, component jj is given
\* the columns jj*nv .. (jj+1)*nv-1 in order
C17_ColumnsWithoutDrop ==
    (result.kind = "bundle" /\ ~call.rg.given)
      => \A jj \in 1 .. model.pu :
            result.sens.bind[jj] = [k \in 1 .. (model.p + model.q) |-> (jj - 1) * (model.p + model.q) + (k - 1)]

C17_WithoutDropReached ==
    /\ result.kind = "bundle"
    /\ ~call.rg.given
    /\ model.pu >= 2
    /\ model.p + model.q >= 2
    /\ result.sens.bind[2][1] = model.p + model.q

\* C18 (as claimed): when rg makes some dimensions degenerate (and not
\* all), the distances of component_sens are computed with, for the k-th
\* retained dimension, the flag of the dimension it came from, and the
\* flag vector of the sample-to-sample distance is as long as x has columns.
C18_FlagsAfterDrop ==
    (Called /\ call.rg.given /\ Degenerate(call.rg) # {} /\ Degenerate(call.rg) # DOMAIN call.rg.mat /\ PlainRest(call))
      => /\ result.kind = "bundle"
         /\ result.sens.catIndex = SortedSeq(Range(model.p + model.q) \ Degenerate(call.rg))
         /\ result.sens.catLen = model.p + model.q - Cardinality(Degenerate(call.rg))

\* what holds of C18: in every call that reaches component_sens the flag
\* used for column k is that of the dimension the column came from, and the
\* flag vector is as long as x has columns (no dimension has been dropped)
C18_FlagsOfCompletedCalls ==
    (result.kind = "bundle")
      => /\ result.sens.catIndex = result.sens.dims
         /\ result.sens.catLen = Len(result.sens.dims)

C18_CompletedReached ==
    /\ result.kind = "bundle"
    /\ model.p + model.q >= 2
    /\ result.sens.catLen = model.p + model.q
    /\ result.sens.catIndex = <<0, 1>>

(***************************************************************************)
(* Specification SpecVarf: varf applied to tables and factor vectors of    *)
(* every shape within the bounds, with entries generated from seeds.       *)
(***************************************************************************)
Seeds == 0 .. MaxSeed

\* the k-th entry generated from seed s: a value in lo .. hi
GenIn(s, k, lo, hi) == lo + (((s + 1) * (k + 2) + k * k + (s * k) \div 2) % (hi - lo + 1))

Gen(s, k) == GenIn(s, k, 1, 5)

\* a table with the shape calc2 gives it (line 373)
Table(m, p, s) == [r \in Range((m * (m + 1)) \div 2 + m) |-> [c \in Range(p) |-> Gen(s, r * p + c)]]

Vector(n, s) == [i \in Range(n) |-> Gen(s, i)]

\* the index arrays within range(p)
IndexSets(p) == {SortedSeq(S) : S \in SUBSET Range(p)}

FactorVectors(m) == {Vector(0, 0)} \cup {Vector(m, s) : s \in Seeds}

VarfInputsOf(m, p) ==
    {[fn |-> "varf", m |-> m, p |-> p, Js |-> Js, C2 |-> Table(m, p, sc), ef |-> e] :
        Js \in IndexSets(p), sc \in Seeds, e \in FactorVectors(m)}

VarfInputs == UNION {VarfInputsOf(m, p) : m \in 1 .. MaxSamples, p \in 1 .. MaxDim}

InitVarf ==
    /\ model = NoModel
    /\ call = NoCall
    /\ result = Idle
    /\ varfIn \in VarfInputs
    /\ varfOut = NoVarf
    /\ numIn = NoNum
    /\ numOut = NoNum
    /\ data = NoData
    /\ heap = NoHeap

ApplyVarf ==
    /\ varfOut = NoVarf
    /\ varfOut' = IF VarfRaises(varfIn.m, varfIn.p, varfIn.Js, varfIn.C2, varfIn.ef)
                  THEN [fn |-> "varf", ok |-> FALSE, Vf |-> Zeros(0),
                        filled |-> calc2(varfIn.m), reads |-> Zeros(0)]
                  ELSE [fn |-> "varf", ok |-> TRUE, Vf |-> varf(varfIn.m, varfIn.p, varfIn.Js, varfIn.C2, varfIn.ef),
                        filled |-> calc2(varfIn.m), reads |-> varf_reads(varfIn.m, varfIn.Js)]
    /\ UNCHANGED <<model, call, result, varfIn, numIn, numOut, data, heap>>

NextVarf == ApplyVarf

SpecVarf == InitVarf /\ [][NextVarf]_vars

\* C10: the matrix varf returns is exactly symmetric, for every m, index
\* set Js, table C2 and factor vector ef.
C10_VarfSymmetric ==
    (varfOut.fn = "varf" /\ varfOut.ok)
      => \A i \in Range(varfIn.m) : \A j \in Range(varfIn.m) : varfOut.Vf[i][j] = varfOut.Vf[j][i]

C10_Witness ==
    /\ varfOut.fn = "varf"
    /\ varfOut.ok
    /\ varfIn.m >= 2
    /\ varfIn.p >= 2
    /\ Len(varfIn.Js) = 1
    /\ varfIn.ef[0] # varfIn.ef[1]
    /\ varfOut.Vf[0][1] > 1
    /\ varfOut.Vf[0][0] # varfOut.Vf[1][1]

\* C11: when Js is the whole of range(p) varf does not read ef (an empty ef
\* is accepted) and every entry is the product over Js of the table row read
\* for it, with no ef factor; when Js is empty the table is not used and the
\* entry (i, j) is ef[i] * ef[j], the diagonal entry ef[i]^2.
C11_VarfEdgeCases ==
    (varfOut.fn = "varf")
      => /\ (varfIn.Js = RangeSeq(varfIn.p))
              => /\ varfOut.ok
                 /\ \A i \in Range(varfIn.m) : \A j \in Range(varfIn.m) :
                        varfOut.Vf[i][j] = ProdAt(varfIn.C2[IF i = j THEN DiagRow(varfIn.m, i)
                                                            ELSE IF i < j THEN UpperRow(varfIn.m, i, j)
                                                            ELSE UpperRow(varfIn.m, j, i)], varfIn.Js)
         /\ (varfIn.Js = <<>> /\ varfOut.ok)
              => \A i \in Range(varfIn.m) : \A j \in Range(varfIn.m) :
                    varfOut.Vf[i][j] = varfIn.ef[i] * varfIn.ef[j]

C11_Witness ==
    /\ varfOut.fn = "varf"
    /\ varfOut.ok
    /\ varfIn.m >= 2
    /\ varfIn.p >= 2
    /\ varfIn.Js = RangeSeq(varfIn.p)
    /\ varfIn.ef = Vector(0, 0)
    /\ varfOut.Vf[0][1] > 1
    /\ varfOut.Vf[0][0] # varfOut.Vf[0][1]

\* the other case of C11: no index in Js, the entries are products of ef alone
C11_EmptyJsReached ==
    /\ varfOut.fn = "varf"
    /\ varfOut.ok
    /\ varfIn.m >= 2
    /\ varfIn.Js = <<>>
    /\ varfIn.ef[0] # varfIn.ef[1]
    /\ varfOut.Vf[0][1] = varfIn.ef[0] * varfIn.ef[1]

\* C21: the table row varf reads for a pair (i, j), i < j, is the row calc2
\* filled for that pair, the pairs taking the rows 0, 1, 2, ... in
\* lexicographic order; the row read for the diagonal entry i is the row
\* calc2 filled for sample i alone; every row index written or read lies
\* inside the table of m(m+1)/2 + m rows; no row read was left unwritten.
C21_RowsAgree ==
    (varfOut.fn = "varf" /\ varfOut.ok /\ Len(varfIn.Js) # 0)
      => LET m == varfIn.m
             rows == varfOut.filled.rows
             reads == varfOut.reads
         IN  /\ varfOut.filled.ok
             /\ DOMAIN rows = Range(TableRows(m))
             /\ \A i \in Range(m) : \A j \in Range(m) :
                    (i <= j) => /\ reads[i][j] \in Range(TableRows(m))
                                /\ rows[reads[i][j]] # Unwritten
                                /\ rows[reads[i][j]] = IF i = j THEN SelfRow(i) ELSE PairRow(i, j)
             /\ \A i \in Range(m) : \A j \in Range(m) :
                    (i < j) => reads[i][j] = Cardinality({x \in Range(m) \X Range(m) :
                                                 /\ x[1] < x[2]
                                                 /\ (x[1] < i \/ (x[1] = i /\ x[2] < j))})

C21_Witness ==
    /\ varfOut.fn = "varf"
    /\ varfOut.ok
    /\ varfIn.m >= 3
    /\ Len(varfIn.Js) # 0
    /\ varfOut.reads[1][2] = 2
    /\ varfOut.filled.rows[2] = PairRow(1, 2)
    /\ varfOut.reads[2][2] = 6
    /\ varfOut.filled.rows[6] = SelfRow(2)
    /\ varfOut.filled.rows[3] = Unwritten

\* a single sample: no pair, and the one row read is row 1 of a table of two
C21_OneSampleReached ==
    /\ varfOut.fn = "varf"
    /\ varfOut.ok
    /\ varfIn.m = 1
    /\ Len(varfIn.Js) # 0
    /\ varfOut.reads[0][0] = 1
    /\ varfOut.filled.rows = [r \in Range(2) |-> IF r = 1 THEN SelfRow(0) ELSE Unwritten]

(***************************************************************************)
(* Specification SpecNum: the indices of one call by values, for every     *)
(* shape within the bounds, with the inputs of each draw generated from a  *)
(* seed.                                                                   *)
(***************************************************************************)
NoBasis == [given |-> FALSE, ny |-> 1, mat |-> <<>>]

Bases(pu) ==
    (IF pu = 1 THEN {NoBasis} ELSE {})
      \cup {[given |-> TRUE, ny |-> ny, mat |-> [jj \in Range(pu) |-> [r \in Range(ny) |-> GenIn(sk, jj * ny + r, -1, 2)]]] :
              ny \in 1 .. MaxNy, sk \in Seeds}

NumInputsOf(pu, p, m, npvec) ==
    {[fn |-> "sensitivity", pu |-> pu, p |-> p, m |-> m, npvec |-> npvec, K |-> K, seed |-> sd] : K \in Bases(pu), sd \in Seeds}

\* the shapes (pu, p, m, npvec) of the calls computed by values; m is at
\* least 2, since with one sample np.squeeze turns Q[ii] into a scalar, which
\* the @ of line 308 refuses (ValueError)
NumShapes == {x \in (1 .. MaxPu) \X (1 .. MaxDim) \X (2 .. MaxM) \X (1 .. MaxDraws) : x[1] * x[2] * x[3] * x[4] <= MaxCells}

NumInputs == UNION {NumInputsOf(x[1], x[2], x[3], x[4]) : x \in NumShapes}

\* the seed of the inputs of component jj at draw ii
DrawSeed(sd, jj, ii) == sd + 5 * jj + 11 * ii

SymmetricMatrix(m, s) == [i \in Range(m) |-> [j \in Range(m) |-> GenIn(s, (IF i < j THEN i ELSE j) * m + (IF i < j THEN j ELSE i), -1, 2)]]

\* the inputs of component jj at draw ii: lamUz[ii], the outputs c1, c3, C2
\* of calc1, calc3, calc2, the inverse P of the covariance and the weights y
DrawInputs(in, jj, ii) ==
    LET s == DrawSeed(in.seed, jj, ii)
    IN  [lamUzi |-> 1 + (s % 2),
         c1 |-> [d \in Range(in.p) |-> GenIn(s, d, 1, 3)],
         c3 |-> [r \in Range(in.m) |-> [d \in Range(in.p) |-> GenIn(s + 1, r * in.p + d, 1, 2)]],
         C2 |-> [r \in Range((in.m * (in.m + 1)) \div 2 + in.m) |-> [d \in Range(in.p) |-> GenIn(s + 2, r * in.p + d, 1, 3)]],
         P |-> SymmetricMatrix(in.m, s + 3),
         y |-> [i \in Range(in.m) |-> GenIn(s + 4, i, -1, 1)]]

\* the pairs of a call with varlist='all' (no varlist for a single input)
NumVarlist(p) == IF p >= 2 THEN Combinations2(p) ELSE <<>>

\* the index sets of the call's jelist: every single input, then all inputs
NumJelist(p) == [k \in 1 .. p |-> <<k - 1>>] \o (IF p >= 2 THEN <<RangeSeq(p)>> ELSE <<>>)

\* sa[jj] of lines 100-105: component jj over the draws
ComponentValues(in, jj) ==
    [ii \in Range(in.npvec) |->
        LET d == DrawInputs(in, jj, ii)
            sa == component_sens_draw(in.m, in.p, d.lamUzi, d.c1, d.c3, d.C2, d.P, d.y)
        IN  sa @@ component_sens_pairs(in.m, in.p, d.lamUzi, d.c1, d.c3, d.C2, d.P, d.y, sa, NumVarlist(in.p), NumJelist(in.p))]

SensitivityValues(in) ==
    LET sa == [jj \in Range(in.pu) |-> ComponentValues(in, jj)]
        ksmm == BasisT(in.K, in.pu, in.K.ny)
        lam == BasisEnergy(ksmm, in.K.ny, in.pu)
        agg == AggregateIndices(sa, lam, in.pu, in.npvec, in.p)
    IN  [fn |-> "sensitivity", sa |-> sa, lam |-> lam, sme |-> agg.sme, ste |-> agg.ste,
         totalVar |-> agg.totalVar, smePm |-> agg.smePm, stePm |-> agg.stePm]

InitNum ==
    /\ model = NoModel
    /\ call = NoCall
    /\ result = Idle
    /\ varfIn = NoVarf
    /\ varfOut = NoVarf
    /\ numIn \in NumInputs
    /\ numOut = NoNum
    /\ data = NoData
    /\ heap = NoHeap

ApplySensitivity ==
    /\ numOut = NoNum
    /\ numOut' = SensitivityValues(numIn)
    /\ UNCHANGED <<model, call, result, varfIn, varfOut, numIn, data, heap>>

NextNum == ApplySensitivity

SpecNum == InitNum /\ [][NextNum]_vars

\* C7: with one basis component, one input dimension and one draw of fixed
\* parameters, the main-effect numerator is the total variance vt and the
\* total-effect numerator is 0, so smePm and stePm are 1 within 0.05
\* (whenever the weighted total variance is a nonzero number).
C7_SingleDimensionIndicesAreOne ==
    (numOut.fn = "sensitivity" /\ numIn.pu = 1 /\ numIn.p = 1 /\ numIn.npvec = 1)
      => /\ numOut.sa[0][0].smeRaw[0] = numOut.sa[0][0].vt
         /\ numOut.sa[0][0].steRaw[0] = R(0)
         /\ (IsFinite(numOut.totalVar[0]) /\ numOut.totalVar[0] # R(0))
              => /\ RClose(numOut.smePm[0], R(1), 1, 20)
                 /\ RClose(numOut.stePm[0], R(1), 1, 20)

C7_Witness ==
    /\ numOut.fn = "sensitivity"
    /\ numIn.pu = 1
    /\ numIn.p = 1
    /\ numIn.npvec = 1
    /\ numIn.m >= 2
    /\ ~numIn.K.given
    /\ numOut.totalVar[0] # R(0)
    /\ numOut.smePm[0] = R(1)
    /\ numOut.stePm[0] = R(1)

\* the sum over the basis components of S of weight(jj)
RECURSIVE SumOver(_, _)
SumOver(S, f) ==
    IF S = {} THEN R(0)
    ELSE LET jj == CHOOSE x \in S : TRUE IN RAdd(f[jj], SumOver(S \ {jj}, f))

\* the sum of the squared loadings of basis component jj
SquaredLoadings(K, jj) == IF K.given THEN SumTo([r \in Range(K.ny) |-> K.mat[jj][r] * K.mat[jj][r]], K.ny) ELSE 1

\* C8: for every draw ii the aggregated main-effect and total-effect
\* indices are sum_jj lam[jj]*vt_jj[ii]*index_jj[ii,:] / sum_jj
\* lam[jj]*vt_jj[ii], with lam[jj] the sum of squared loadings of component
\* jj (length pu); totalVar[ii] is that denominator; with pu = 1 and nonzero
\* lam*vt the aggregated indices are the component's own.
C8_WeightedAggregation ==
    numOut.fn = "sensitivity"
      => /\ DOMAIN numOut.lam = Range(numIn.pu)
         /\ \A jj \in Range(numIn.pu) : numOut.lam[jj] = SquaredLoadings(numIn.K, jj)
         /\ \A ii \in Range(numIn.npvec) :
              LET den == SumOver(Range(numIn.pu), [jj \in Range(numIn.pu) |-> RMul(R(SquaredLoadings(numIn.K, jj)), numOut.sa[jj][ii].vt)])
              IN  /\ numOut.totalVar[ii] = den
                  /\ \A k \in Range(numIn.p) :
                       /\ numOut.sme[ii][k] = RDiv(SumOver(Range(numIn.pu), [jj \in Range(numIn.pu) |-> RMul(RMul(R(SquaredLoadings(numIn.K, jj)), numOut.sa[jj][ii].vt), numOut.sa[jj][ii].sme[k])]), den)
                       /\ numOut.ste[ii][k] = RDiv(SumOver(Range(numIn.pu), [jj \in Range(numIn.pu) |-> RMul(RMul(R(SquaredLoadings(numIn.K, jj)), numOut.sa[jj][ii].vt), numOut.sa[jj][ii].ste[k])]), den)
                       /\ (numIn.pu = 1 /\ IsFinite(den) /\ den # R(0))
                            => /\ numOut.sme[ii][k] = numOut.sa[0][ii].sme[k]
                               /\ numOut.ste[ii][k] = numOut.sa[0][ii].ste[k]

C8_Witness ==
    /\ numOut.fn = "sensitivity"
    /\ numIn.pu >= 2
    /\ numIn.p >= 2
    /\ numIn.npvec >= 2
    /\ numOut.lam[0] # numOut.lam[1]
    /\ numOut.lam[0] > 0
    /\ numOut.lam[1] > 0
    /\ \A ii \in Range(numIn.npvec) : IsFinite(numOut.totalVar[ii]) /\ numOut.totalVar[ii] # R(0)
    /\ \A ii \in Range(numIn.npvec) : IsFinite(numOut.sme[ii][0]) /\ numOut.sme[ii][0] # numOut.sa[0][ii].sme[0]
    /\ numOut.sa[0][0].vt # numOut.sa[1][0].vt


\* the numerator the main-effect steps give for an index set Js: the trace
\* of the matrix product of Q and varf(Js), as at line 319
MatrixProductRaw(in, jj, ii, Js) ==
    LET d == DrawInputs(in, jj, ii)
        Q == GPQ(in.m, d.P, GPWeights(in.m, d.P, d.y))
        ll == setxor1d(RangeSeq(in.p), Js)
    IN  Numerator(in.m, ProdAt(d.c1, ll), d.lamUzi, Q, varf(in.m, in.p, Js, d.C2, RowProds(in.m, d.c3, ll)), numOut.sa[jj][ii].e2)

\* C19 (as claimed): for every pair (i, j) of varlist and every draw,
\* sie = raw/vt - sme[i] - sme[j] with raw = u5/lamUz -
\* trace(Q matrix-multiplied by varf({i, j}))/lamUz^2 - e2; with p = 2 the
\* pair is the whole set, raw is vt and sie = 1 - sme[0] - sme[1].
C19_InteractionByMatrixProduct ==
    (numOut.fn = "sensitivity")
      => \A jj \in Range(numIn.pu) : \A ii \in Range(numIn.npvec) : \A k \in 1 .. Len(NumVarlist(numIn.p)) :
            LET sa == numOut.sa[jj][ii]
                Js == NumVarlist(numIn.p)[k]
                raw == MatrixProductRaw(numIn, jj, ii, Js)
            IN  /\ sa.sieRaw[k] = raw
                /\ sa.sie[k] = RSub(RSub(RDiv(raw, sa.vt), sa.sme[Js[1]]), sa.sme[Js[2]])
                /\ numIn.p = 2 => raw = sa.vt

\* a pair whose numerator, computed as at line 336, is not the total variance
C19_PairReached ==
    /\ numOut.fn = "sensitivity"
    /\ numIn.p = 2
    /\ numIn.m = 2
    /\ numIn.pu = 1
    /\ numIn.npvec = 1
    /\ IsFinite(numOut.sa[0][0].sie[1])
    /\ numOut.sa[0][0].sieRaw[1] # numOut.sa[0][0].vt

\* C20 (as claimed): for every index set Js of jelist and every draw, sje
\* is the numerator of Js divided by vt with no main effect subtracted, the
\* numerator being u/lamUz - trace(Q matrix-multiplied by varf(Js))/lamUz^2
\* - e2 as for the main effects; for a singleton {j}, sje equals sme[j].
C20_JointByMatrixProduct ==
    (numOut.fn = "sensitivity")
      => \A jj \in Range(numIn.pu) : \A ii \in Range(numIn.npvec) : \A k \in 1 .. Len(NumJelist(numIn.p)) :
            LET sa == numOut.sa[jj][ii]
                Js == NumJelist(numIn.p)[k]
                raw == MatrixProductRaw(numIn, jj, ii, Js)
            IN  /\ sa.sjeRaw[k] = raw
                /\ sa.sje[k] = RDiv(raw, sa.vt)
                /\ Len(Js) = 1 => sa.sje[k] = sa.sme[Js[1]]

\* a singleton index set whose sje is a number other than sme of its input
C20_SingletonReached ==
    /\ numOut.fn = "sensitivity"
    /\ numIn.pu = 1
    /\ numIn.npvec = 1
    /\ numIn.m = 2
    /\ IsFinite(numOut.sa[0][0].sje[1])
    /\ numOut.sa[0][0].sje[1] # numOut.sa[0][0].sme[0]

(***************************************************************************)
(* Specification SpecGP: the GP step of component_sens, lines 264-273, on  *)
(* training covariances S generated from seeds.  S is what                 *)
(* xdist.compute_cov_mat returns; np.linalg.inv and np.linalg.solve raise  *)
(* LinAlgError on a singular matrix and return the inverse and the         *)
(* solution of any other matrix.                                           *)
(***************************************************************************)
\* the matrix without row r and column c
Minor(M, n, r, c) ==
    [i \in Range(n - 1) |-> [j \in Range(n - 1) |-> M[IF i < r THEN i ELSE i + 1][IF j < c THEN j ELSE j + 1]]]

RECURSIVE Det(_, _)
Det(M, n) ==
    IF n = 0 THEN 1
    ELSE IF n = 1 THEN M[0][0]
    ELSE SumTo([c \in Range(n) |-> (IF c % 2 = 0 THEN 1 ELSE -1) * M[0][c] * Det(Minor(M, n, 0, c), n - 1)], n)

\* line 271: np.linalg.inv(S)
linalg_inv(S, m) ==
    LET d == Det(S, m)
    IN  IF d = 0 THEN [ok |-> FALSE, err |-> "LinAlgError", mat |-> <<>>]
        ELSE [ok |-> TRUE, err |-> "",
              mat |-> [i \in Range(m) |-> [j \in Range(m) |->
                          RNorm(<<(IF (i + j) % 2 = 0 THEN 1 ELSE -1) * Det(Minor(S, m, j, i), m - 1), d>>)]]]

\* line 272: np.linalg.solve(S, y), the product of the inverse and y
linalg_solve(P, y, m) == [i \in Range(m) |-> RSumTo([k \in Range(m) |-> RMul(P[i][k], R(y[k]))], m)]

\* line 273: P - np.outer(My, My)
OuterDifference(P, My, m) == [i \in Range(m) |-> [j \in Range(m) |-> RSub(P[i][j], RMul(My[i], My[j]))]]

\* lines 264-273 for the draws in order: the first singular S ends the call
GPStep(m, S, y, npvec) ==
    LET inv == [ii \in Range(npvec) |-> linalg_inv(S[ii], m)]
    IN  IF \E ii \in Range(npvec) : ~inv[ii].ok
        THEN [fn |-> "gp", kind |-> "raise", err |-> "LinAlgError", P |-> <<>>, My |-> <<>>, Q |-> <<>>]
        ELSE LET P == [ii \in Range(npvec) |-> inv[ii].mat]
                 My == [ii \in Range(npvec) |-> linalg_solve(P[ii], y, m)]
             IN  [fn |-> "gp", kind |-> "done", err |-> "", P |-> P, My |-> My,
                  Q |-> [ii \in Range(npvec) |-> OuterDifference(P[ii], My[ii], m)]]

\* a symmetric matrix with off-diagonal entries in -1 .. 1 and a diagonal
\* raised by 1 or 2: positive-definite, indefinite and singular ones occur
Covariance(m, s) ==
    [i \in Range(m) |-> [j \in Range(m) |->
        GenIn(s, (IF i < j THEN i ELSE j) * m + (IF i < j THEN j ELSE i), -1, 1) + (IF i = j THEN 1 + (s % 2) ELSE 0)]]

GPInputsOf(m, npvec) ==
    {[fn |-> "gp", m |-> m, npvec |-> npvec, seed |-> sd,
      S |-> [ii \in Range(npvec) |-> Covariance(m, sd[ii] + ii)],
      y |-> [i \in Range(m) |-> GenIn(sy, i, -1, 1)]] : sd \in [Range(npvec) -> Seeds], sy \in Seeds}

GPInputs == UNION {GPInputsOf(m, npvec) : m \in 1 .. MaxM, npvec \in 1 .. MaxDraws}

InitGP ==
    /\ model = NoModel
    /\ call = NoCall
    /\ result = Idle
    /\ varfIn = NoVarf
    /\ varfOut = NoVarf
    /\ numIn \in GPInputs
    /\ numOut = NoNum
    /\ data = NoData
    /\ heap = NoHeap

ApplyGP ==
    /\ numOut = NoNum
    /\ numOut' = GPStep(numIn.m, numIn.S, numIn.y, numIn.npvec)
    /\ UNCHANGED <<model, call, result, varfIn, varfOut, numIn, data, heap>>

NextGP == ApplyGP

SpecGP == InitGP /\ [][NextGP]_vars

\* Sylvester's criterion: every leading principal minor is positive
PositiveDefinite(S, m) ==
    \A k \in 1 .. m : Det([i \in Range(k) |-> [j \in Range(k) |-> S[i][j]]], k) > 0

\* C13 (as claimed): when the training covariance S of some draw is not
\* symmetric positive-definite the call fails with an error (whatever its
\* name), so that no such S is inverted and used.
C13_NotPositiveDefiniteFails ==
    (numOut.fn = "gp" /\ \E ii \in Range(numIn.npvec) : ~PositiveDefinite(numIn.S[ii], numIn.m))
      => numOut.kind = "raise"

\* a symmetric S that is not positive-definite and not singular is inverted
\* and its inverse kept in P
C13_IndefiniteInverted ==
    /\ numOut.fn = "gp"
    /\ numOut.kind = "done"
    /\ numIn.m >= 2
    /\ ~PositiveDefinite(numIn.S[0], numIn.m)

\* a positive-definite S and a singular S both occur among the inputs
C13_PositiveDefiniteReached ==
    /\ numOut.fn = "gp"
    /\ numOut.kind = "done"
    /\ numIn.m >= 2
    /\ \A ii \in Range(numIn.npvec) : PositiveDefinite(numIn.S[ii], numIn.m)

C13_SingularRaises ==
    /\ numOut.fn = "gp"
    /\ numOut.kind = "raise"

(***************************************************************************)
(* Specification SpecData: the construction of a SepiaData object from     *)
(* arrays given by their shapes (SepiaData.__init__ and                    *)
(* DataContainer.__init__).  Arrays are two-dimensional; an argument left  *)
(* out is None.                                                            *)
(***************************************************************************)
NoArray == [given |-> FALSE, rows |-> 0, cols |-> 0]

Array(n, c) == [given |-> TRUE, rows |-> n, cols |-> c]

NoIndex == [given |-> FALSE, len |-> 0]

Index(l) == [given |-> TRUE, len |-> l]

\* DataContainer.__init__, lines 47-66, for array-valued y
DataContainer(x, y, t, y_ind) ==
    IF x.rows # y.rows THEN [ok |-> FALSE, err |-> "ValueError", x |-> x, y |-> y, t |-> t, y_ind |-> y_ind]
    ELSE IF t.given /\ t.rows # x.rows THEN [ok |-> FALSE, err |-> "ValueError", x |-> x, y |-> y, t |-> t, y_ind |-> y_ind]
    ELSE IF y.cols > 1 /\ ~y_ind.given THEN [ok |-> FALSE, err |-> "ValueError", x |-> x, y |-> y, t |-> t, y_ind |-> y_ind]
    ELSE IF y_ind.given /\ y.cols # y_ind.len THEN [ok |-> FALSE, err |-> "ValueError", x |-> x, y |-> y, t |-> t, y_ind |-> y_ind]
    ELSE [ok |-> TRUE, err |-> "", x |-> x, y |-> y, t |-> t, y_ind |-> y_ind]

NoContainer == [ok |-> FALSE, err |-> "", x |-> NoArray, y |-> NoArray, t |-> NoArray, y_ind |-> NoIndex]

DataRaise(a, e) == [fn |-> "SepiaData", args |-> a, kind |-> "raise", err |-> e, sim_data |-> NoContainer, obs_data |-> NoContainer, sim_only |-> FALSE, scalar_out |-> FALSE]

\* SepiaData.__init__, lines 43-64
SepiaData(a) ==
    IF ~a.y_sim.given THEN DataRaise(a, "TypeError")
    ELSE IF ~a.x_sim.given /\ ~a.t_sim.given THEN DataRaise(a, "TypeError")
    ELSE LET x_sim == IF a.x_sim.given THEN a.x_sim ELSE Array(a.t_sim.rows, 1)
             sim == DataContainer(x_sim, a.y_sim, a.t_sim, a.y_ind_sim)
             scalar_out == ~(a.y_ind_sim.given /\ a.y_sim.cols > 1)
         IN  IF ~sim.ok THEN DataRaise(a, sim.err)
             ELSE IF ~a.y_obs.given
                  THEN [fn |-> "SepiaData", args |-> a, kind |-> "object", err |-> "", sim_data |-> sim, obs_data |-> NoContainer, sim_only |-> TRUE, scalar_out |-> scalar_out]
                  ELSE LET x_obs == IF a.x_obs.given THEN a.x_obs ELSE Array(a.y_obs.rows, 1)
                           obs == DataContainer(x_obs, a.y_obs, NoArray, a.y_ind_obs)
                       IN  IF x_sim.cols # x_obs.cols THEN DataRaise(a, "TypeError")
                           ELSE IF ~obs.ok THEN DataRaise(a, obs.err)
                           ELSE [fn |-> "SepiaData", args |-> a, kind |-> "object", err |-> "", sim_data |-> sim, obs_data |-> obs, sim_only |-> FALSE, scalar_out |-> scalar_out]

Arrays(maxRows, maxCols) == {NoArray} \cup {Array(n, c) : n \in 1 .. maxRows, c \in 1 .. maxCols}

Indices(maxLen) == {NoIndex} \cup {Index(l) : l \in 1 .. maxLen}

DataArgs ==
    [x_sim : Arrays(MaxM, MaxP), t_sim : Arrays(MaxM, MaxQ), y_sim : Arrays(MaxM, MaxNy), y_ind_sim : Indices(MaxNy),
     x_obs : Arrays(MaxM, MaxP), y_obs : Arrays(MaxM, MaxNy), y_ind_obs : Indices(MaxNy)]

InitData ==
    /\ model = NoModel
    /\ call = NoCall
    /\ result = Idle
    /\ varfIn = NoVarf
    /\ varfOut = NoVarf
    /\ numIn = NoNum
    /\ numOut = NoNum
    /\ data = NoData
    /\ heap = NoHeap

Construct ==
    /\ data.fn = "none"
    /\ \E a \in DataArgs : data' = SepiaData(a)
    /\ UNCHANGED <<model, call, result, varfIn, varfOut, numIn, numOut, heap>>

\* the caller drops the object, or the exception has been handled
Discard ==
    /\ data.fn = "SepiaData"
    /\ data' = NoData
    /\ UNCHANGED <<model, call, result, varfIn, varfOut, numIn, numOut, heap>>

NextData == Construct \/ Discard

SpecData == InitData /\ [][NextData]_vars

\* required data is missing: no y_sim, or neither x_sim nor t_sim
MissingData(a) == ~a.y_sim.given \/ (~a.x_sim.given /\ ~a.t_sim.given)

\* the simulation shapes are not conformal: x_sim/y_sim or x_sim/t_sim row
\* counts differ, multivariate y without y_ind, y columns differ from y_ind
SimNotConformal(a) ==
    /\ a.y_sim.given
    /\ a.x_sim.given
    /\ \/ a.x_sim.rows # a.y_sim.rows
       \/ a.t_sim.given /\ a.t_sim.rows # a.x_sim.rows
       \/ a.y_sim.cols > 1 /\ ~a.y_ind_sim.given
       \/ a.y_ind_sim.given /\ a.y_sim.cols # a.y_ind_sim.len

\* x_sim and x_obs have different numbers of columns
ObsColumnsDiffer(a) == a.x_sim.given /\ a.x_obs.given /\ a.y_obs.given /\ a.x_sim.cols # a.x_obs.cols

\* C15 (as claimed): constructing SepiaData with required data missing or
\* with shapes that are not conformal raises TypeError and nothing else.
C15_TypeErrorOnly ==
    (data.fn = "SepiaData" /\ (MissingData(data.args) \/ SimNotConformal(data.args) \/ ObsColumnsDiffer(data.args)))
      => /\ data.kind = "raise"
         /\ data.err = "TypeError"

\* what holds of the constructor: the malformed cases never give an object
C15_NoObject ==
    (data.fn = "SepiaData" /\ (MissingData(data.args) \/ SimNotConformal(data.args) \/ ObsColumnsDiffer(data.args)))
      => data.kind = "raise"

\* a shape that is not conformal is reported as ValueError
C15_ValueErrorReached ==
    /\ data.fn = "SepiaData"
    /\ SimNotConformal(data.args)
    /\ data.kind = "raise"
    /\ data.err = "ValueError"

(***************************************************************************)
(* Specification SpecXt: SepiaData.transform_xt (lines 107-139) on inputs  *)
(* given by their values, generated from seeds.                            *)
(***************************************************************************)
NoMatrix == [given |-> FALSE, n |-> 0, c |-> 0, val |-> <<>>]

\* an n x c array of values in 0 .. 2; its columns may be constant
Matrix(n, c, s) == [given |-> TRUE, n |-> n, c |-> c, val |-> [i \in Range(n) |-> [j \in Range(c) |-> GenIn(s + j, i * (j + s + 2), 0, 2)]]]

\* np.min(x, 0) and np.max(x, 0)
ColMin(x) == [j \in Range(x.c) |-> CHOOSE v \in {x.val[i][j] : i \in Range(x.n)} : \A i \in Range(x.n) : v <= x.val[i][j]]

ColMax(x) == [j \in Range(x.c) |-> CHOOSE v \in {x.val[i][j] : i \in Range(x.n)} : \A i \in Range(x.n) : v >= x.val[i][j]]

\* variant: line 125 does not copy, the writes reach the caller's x_min
CallerMin_Aliased(x_min, written) == written

\* what the caller's x_min holds after trans: line 125 copies x_min before
\* line 126 writes to it, so the caller's array is as it was
CallerMin(x_min, written) == x_min

\* trans, lines 116-129
trans(x, a, b, x_min, x_max) ==
    LET xmm0 == [j \in Range(x.c) |-> x_max[j] - x_min[j]]
        x_min_w == [j \in Range(x.c) |-> IF xmm0[j] = 0 THEN 0 ELSE x_min[j]]
        a_vec == [j \in Range(x.c) |-> IF xmm0[j] = 0 THEN 0 ELSE a]
        b_vec == [j \in Range(x.c) |-> IF xmm0[j] = 0 THEN 1 ELSE b]
        xmm == [j \in Range(x.c) |-> IF xmm0[j] = 0 THEN 1 ELSE xmm0[j]]
    IN  [val |-> [i \in Range(x.n) |-> [j \in Range(x.c) |->
                    RAdd(RMul(RDiv(R(x.val[i][j] - x_min_w[j]), R(xmm[j])), R(b_vec[j] - a_vec[j])), R(a_vec[j]))]],
         x_min |-> CallerMin(x_min, x_min_w)]

NoValues == [given |-> FALSE, val |-> <<>>]

Values(v) == [given |-> TRUE, val |-> v]

\* transform_xt, lines 130-139
transform_xt(d, xt_min, xt_max) ==
    LET x_min == ColMin(d.x)
        x_max == ColMax(d.x)
        tx == trans(d.x, xt_min, xt_max, x_min, x_max)
        t_min == IF d.t.given THEN ColMin(d.t) ELSE <<>>
        t_max == IF d.t.given THEN ColMax(d.t) ELSE <<>>
        tt == IF d.t.given THEN trans(d.t, xt_min, xt_max, t_min, t_max) ELSE [val |-> <<>>, x_min |-> <<>>]
        ox == IF d.sim_only THEN [val |-> <<>>, x_min |-> tx.x_min] ELSE trans(d.obs_x, xt_min, xt_max, tx.x_min, x_max)
    IN  [d EXCEPT !.transformed = TRUE,
                  !.xt_min = xt_min,
                  !.xt_max = xt_max,
                  !.orig_x_min = Values(ox.x_min),
                  !.orig_x_max = Values(x_max),
                  !.x_trans = Values(tx.val),
                  !.orig_t_min = IF d.t.given THEN Values(tt.x_min) ELSE NoValues,
                  !.orig_t_max = IF d.t.given THEN Values(t_max) ELSE NoValues,
                  !.t_trans = IF d.t.given THEN Values(tt.val) ELSE NoValues,
                  !.obs_x_trans = IF d.sim_only THEN NoValues ELSE Values(ox.val)]

XtData(x, t, obs_x) ==
    [fn |-> "xt", x |-> x, t |-> t, obs_x |-> obs_x, sim_only |-> ~obs_x.given, transformed |-> FALSE, xt_min |-> 0, xt_max |-> 0,
     orig_x_min |-> NoValues, orig_x_max |-> NoValues, x_trans |-> NoValues,
     orig_t_min |-> NoValues, orig_t_max |-> NoValues, t_trans |-> NoValues, obs_x_trans |-> NoValues]

XtInputsOf(n, p, s) ==
    {XtData(Matrix(n, p, s), t, o) :
        t \in {NoMatrix} \cup {Matrix(n, q, s + 1) : q \in 1 .. MaxQ},
        o \in {NoMatrix} \cup {Matrix(k, p, s + 2) : k \in 1 .. MaxM}}

XtInputs == UNION {XtInputsOf(n, p, s) : n \in 1 .. MaxM, p \in 1 .. MaxP, s \in Seeds}

\* the target intervals [xt_min, xt_max]: the default and another one
XtRanges == {<<0, 1>>, <<-1, 2>>}

InitXt ==
    /\ model = NoModel
    /\ call = NoCall
    /\ result = Idle
    /\ varfIn = NoVarf
    /\ varfOut = NoVarf
    /\ numIn = NoNum
    /\ numOut = NoNum
    /\ data \in XtInputs
    /\ heap = NoHeap

TransformXt ==
    /\ data.fn = "xt"
    /\ ~data.transformed
    /\ \E r \in XtRanges : data' = transform_xt(data, r[1], r[2])
    /\ UNCHANGED <<model, call, result, varfIn, varfOut, numIn, numOut, heap>>

NextXt == TransformXt

SpecXt == InitXt /\ [][NextXt]_vars

\* the column j of x is mapped as C16 says
ColumnAsClaimed(x, out, lo, hi, j, a, b) ==
    IF lo[j] = hi[j]
    THEN \A i \in Range(x.n) : out[i][j] = R(x.val[i][j])
    ELSE \A i \in Range(x.n) :
            /\ x.val[i][j] = lo[j] => out[i][j] = R(a)
            /\ x.val[i][j] = hi[j] => out[i][j] = R(b)

\* C16: transform_xt leaves every constant column of x and t unchanged,
\* maps the minimum of every other simulation column to xt_min and its
\* maximum to xt_max, and stores the untransformed columnwise minima and
\* maxima in orig_x_min/orig_x_max (orig_t_min/orig_t_max), the minima of
\* constant columns included.
C16_TransformXt ==
    (data.fn = "xt" /\ data.transformed)
      => /\ data.orig_x_min = Values(ColMin(data.x))
         /\ data.orig_x_max = Values(ColMax(data.x))
         /\ \A j \in Range(data.x.c) : ColumnAsClaimed(data.x, data.x_trans.val, ColMin(data.x), ColMax(data.x), j, data.xt_min, data.xt_max)
         /\ data.t.given
              => /\ data.orig_t_min = Values(ColMin(data.t))
                 /\ data.orig_t_max = Values(ColMax(data.t))
                 /\ \A j \in Range(data.t.c) : ColumnAsClaimed(data.t, data.t_trans.val, ColMin(data.t), ColMax(data.t), j, data.xt_min, data.xt_max)

C16_Witness ==
    /\ data.fn = "xt"
    /\ data.transformed
    /\ data.xt_min = -1
    /\ data.x.n >= 2
    /\ data.t.given
    /\ ~data.sim_only
    /\ \E j \in Range(data.x.c) : ColMin(data.x)[j] = ColMax(data.x)[j] /\ ColMin(data.x)[j] > 0
    /\ \E j \in Range(data.x.c) : ColMin(data.x)[j] < ColMax(data.x)[j] /\ \E i \in Range(data.x.n) : data.x_trans.val[i][j] = R(2)

(***************************************************************************)
(* sensitivity by values, lines 154-218: the effect functions of the       *)
(* components put back on the scale of the outputs.  sa[jj] holds mef_m    *)
(* and mef_v of component jj as [draw][dimension][grid point]; ksmm is     *)
(* K.T as [output][component].                                             *)
(***************************************************************************)
\* np.mean(a, 0) of one cell over the draws
DrawMean(a, npvec) == RDiv(RSumTo([d \in Range(npvec) |-> a[d]], npvec), R(npvec))

\* np.var(a, 0) of one cell over the draws: the mean of the squared
\* deviations from the mean
DrawVar(a, npvec) ==
    LET mu == DrawMean(a, npvec)
    IN  DrawMean([d \in Range(npvec) |-> RMul(RSub(a[d], mu), RSub(a[d], mu))], npvec)

\* line 165: mef_m[jj, kk, :, :]
ComponentMean(in, jj, kk) ==
    [l \in Range(in.ny) |-> [g \in Range(in.ngrid) |->
        RAdd(RMul(RMul(R(in.ksmm[l][jj]), DrawMean([d \in Range(in.npvec) |-> R(in.sa[jj].mef_m[d][kk][g])], in.npvec)),
                  R(in.ysd[l])),
             R(in.ymean[l]))]]

\* variant: the total keeps every component's copy of the output mean
MeanCopiesRemoved_None(pu) == 0

\* line 173: the multiple of meanmat subtracted from the summed means
MeanCopiesRemoved(pu) == pu - 1

\* lines 170-173: tmef_m[kk, :, :]
TotalMean(in, mef_m, kk) ==
    [l \in Range(in.ny) |-> [g \in Range(in.ngrid) |->
        RSub(RSumTo([jj \in Range(in.pu) |-> mef_m[jj][kk][l][g]], in.pu),
             R(MeanCopiesRemoved(in.pu) * in.ymean[l]))]]

\* lines 166-167: mef_sd[jj, kk, :, :] squared (the code takes the square
\* root of the sum of the two variances, then multiplies by ysd)
ComponentVariance(in, jj, kk) ==
    [l \in Range(in.ny) |-> [g \in Range(in.ngrid) |->
        RMul(RAdd(RMul(R(in.ksmm[l][jj] * in.ksmm[l][jj]),
                       DrawVar([d \in Range(in.npvec) |-> R(in.sa[jj].mef_m[d][kk][g])], in.npvec)),
                  RMul(R(in.ksmm[l][jj] * in.ksmm[l][jj]),
                       DrawMean([d \in Range(in.npvec) |-> R(in.sa[jj].mef_v[d][kk][g])], in.npvec))),
             R(in.ysd[l] * in.ysd[l]))]]

\* lines 176-178: tmef_sd[jj, :, :] after the loop over the components
RECURSIVE WithinVariance(_, _, _)
WithinVariance(in, jj, kk) ==
    IF kk = 0 THEN [l \in Range(in.ny) |-> [g \in Range(in.ngrid) |-> R(0)]]
    ELSE LET before == WithinVariance(in, jj, kk - 1)
         IN  [l \in Range(in.ny) |-> [g \in Range(in.ngrid) |->
                 RAdd(before[l][g],
                      RMul(R(in.ksmm[l][kk - 1] * in.ksmm[l][kk - 1]),
                           DrawMean([d \in Range(in.npvec) |-> R(in.sa[kk - 1].mef_v[d][jj][g])], in.npvec)))]]

\* lines 182-183: tmp[:, jj, :] after the loop over the components at output row ii
RECURSIVE AddRow(_, _, _, _)
AddRow(in, tmp, ii, kk) ==
    IF kk = 0 THEN tmp
    ELSE LET before == AddRow(in, tmp, ii, kk - 1)
         IN  [d \in Range(in.npvec) |-> [jj \in Range(in.nv) |-> [g \in Range(in.ngrid) |->
                 before[d][jj][g] + in.ksmm[ii][kk - 1] * in.sa[kk - 1].mef_m[d][jj][g]]]]

\* lines 179-184: the term np.var(tmp[:, jj, :], axis=0) added to
\* tmef_sd[jj, ii, :], for the output rows ii, ii + 1, ...; tmp is made once,
\* at line 179, and carried from one output row to the next
RECURSIVE DrawVariance(_, _, _, _)
DrawVariance(in, ii, tmp, terms) ==
    IF ii >= in.ny THEN terms
    ELSE LET after == AddRow(in, tmp, ii, in.pu)
         IN  DrawVariance(in, ii + 1, after,
                 [jj \in Range(in.nv) |-> [l \in Range(in.ny) |-> [g \in Range(in.ngrid) |->
                     IF l = ii THEN DrawVar([d \in Range(in.npvec) |-> R(after[d][jj][g])], in.npvec)
                     ELSE terms[jj][l][g]]]])

\* the pairs of dimensions whose joint effect functions are unscaled
EffPairs(in) == Range(Len(NumVarlist(in.nv)))

\* line 196: jef_m[jj, kk, :, :], rows indexed g2 * L + l, columns g1
JointComponentMean(in, jj, kk) ==
    [r \in Range(in.ngrid * in.ny) |-> [g1 \in Range(in.ngrid) |->
        LET l == r % in.ny
            g2 == r \div in.ny
        IN  RAdd(RMul(RMul(DrawMean([d \in Range(in.npvec) |-> R(in.sa[jj].jef_m[d][kk][g1][g2])], in.npvec),
                           R(in.ksmm[l][jj])),
                      R(in.ysd[l])),
                 R(in.ymean[l]))]]

\* lines 199-202: tjef_m[kk, :, :]
JointTotalMean(in, jef_m, kk) ==
    [r \in Range(in.ngrid * in.ny) |-> [g1 \in Range(in.ngrid) |->
        RSub(RSumTo([jj \in Range(in.pu) |-> jef_m[jj][kk][r][g1]], in.pu),
             R((in.pu - 1) * in.ymean[r % in.ny]))]]

\* lines 205-208: tjef_sd[jj, :, :] after the loop over the components
RECURSIVE JointWithinVariance(_, _, _)
JointWithinVariance(in, jj, kk) ==
    IF kk = 0 THEN [r \in Range(in.ngrid * in.ny) |-> [g1 \in Range(in.ngrid) |-> R(0)]]
    ELSE LET before == JointWithinVariance(in, jj, kk - 1)
         IN  [r \in Range(in.ngrid * in.ny) |-> [g1 \in Range(in.ngrid) |->
                 RAdd(before[r][g1],
                      RMul(DrawMean([d \in Range(in.npvec) |-> R(in.sa[kk - 1].jef_v[d][jj][g1][r \div in.ny])], in.npvec),
                           R(in.ksmm[r % in.ny][kk - 1] * in.ksmm[r % in.ny][kk - 1])))]]

\* lines 213-214: tmp[:, jj, :] after the loop over the components at grid
\* row hh and output ii
RECURSIVE AddJointRow(_, _, _, _, _)
AddJointRow(in, tmp, hh, ii, kk) ==
    IF kk = 0 THEN tmp
    ELSE LET before == AddJointRow(in, tmp, hh, ii, kk - 1)
         IN  [d \in Range(in.npvec) |-> [jj \in EffPairs(in) |-> [g \in Range(in.ngrid) |->
                 before[d][jj][g] + in.ksmm[ii][kk - 1] * in.sa[kk - 1].jef_m[d][jj][hh][g]]]]

\* line 215: the row index written for grid row hh and output ii
JointRow(in, hh, ii) == (hh - 1) * in.ny + ii

\* the row of an array of n rows that the index r names: a negative index
\* counts from the end
PyIndex(r, n) == IF r < 0 THEN r + n ELSE r

\* lines 209-215 from grid row hh, output ii on: terms holds what line 215
\* has added to each row, rows the index line 215 computed for each (hh, ii)
RECURSIVE JointDrawVariance(_, _, _, _, _, _)
JointDrawVariance(in, hh, ii, tmp, terms, rows) ==
    IF hh >= in.ngrid THEN [terms |-> terms, rows |-> rows]
    ELSE IF ii >= in.ny THEN JointDrawVariance(in, hh + 1, 0, tmp, terms, rows)
    ELSE LET after == AddJointRow(in, tmp, hh, ii, in.pu)
             at == PyIndex(JointRow(in, hh, ii), in.ngrid * in.ny)
         IN  JointDrawVariance(in, hh, ii + 1, after,
                 [jj \in EffPairs(in) |-> [r \in Range(in.ngrid * in.ny) |-> [g \in Range(in.ngrid) |->
                     IF r = at
                     THEN RAdd(terms[jj][r][g], DrawVar([d \in Range(in.npvec) |-> R(after[d][jj][g])], in.npvec))
                     ELSE terms[jj][r][g]]]],
                 [rows EXCEPT ![hh][ii] = JointRow(in, hh, ii)])

\* lines 154-218
unscaling(in) ==
    LET mef_m == [jj \in Range(in.pu) |-> [kk \in Range(in.nv) |-> ComponentMean(in, jj, kk)]]
        within == [jj \in Range(in.nv) |-> WithinVariance(in, jj, in.pu)]
        drawVar == DrawVariance(in, 0,
                                [d \in Range(in.npvec) |-> [jj \in Range(in.nv) |-> [g \in Range(in.ngrid) |-> 0]]],
                                [jj \in Range(in.nv) |-> [l \in Range(in.ny) |-> [g \in Range(in.ngrid) |-> R(0)]]])
        jef_m == [jj \in Range(in.pu) |-> [kk \in EffPairs(in) |-> JointComponentMean(in, jj, kk)]]
        jwithin == [jj \in EffPairs(in) |-> JointWithinVariance(in, jj, in.pu)]
        jdraw == JointDrawVariance(in, 0, 0,
                                   [d \in Range(in.npvec) |-> [jj \in EffPairs(in) |-> [g \in Range(in.ngrid) |-> 0]]],
                                   [jj \in EffPairs(in) |-> [r \in Range(in.ngrid * in.ny) |-> [g \in Range(in.ngrid) |-> R(0)]]],
                                   [hh \in Range(in.ngrid) |-> [ii \in Range(in.ny) |-> 0]])
    IN  [fn |-> "unscaling",
         mef_m |-> mef_m,
         mef_sd_sq |-> [jj \in Range(in.pu) |-> [kk \in Range(in.nv) |-> ComponentVariance(in, jj, kk)]],
         tmef_m |-> [kk \in Range(in.nv) |-> TotalMean(in, mef_m, kk)],
         drawVar |-> drawVar,
         \* line 186 squared: (np.sqrt(tmef_sd[kk]) * ysdmat)^2
         tmef_sd_sq |-> [jj \in Range(in.nv) |-> [l \in Range(in.ny) |-> [g \in Range(in.ngrid) |->
                            RMul(RAdd(within[jj][l][g], drawVar[jj][l][g]), R(in.ysd[l] * in.ysd[l]))]]],
         jef_m |-> jef_m,
         tjef_m |-> [kk \in EffPairs(in) |-> JointTotalMean(in, jef_m, kk)],
         tjef_within |-> jwithin,
         tjef_drawVar |-> jdraw.terms,
         tjef_rows |-> jdraw.rows,
         \* line 217 squared: (np.sqrt(tjef_sd[kk]) * ysdmat.T)^2
         tjef_sd_sq |-> [jj \in EffPairs(in) |-> [r \in Range(in.ngrid * in.ny) |-> [g \in Range(in.ngrid) |->
                            RMul(RAdd(jwithin[jj][r][g], jdraw.terms[jj][r][g]),
                                 R(in.ysd[r % in.ny] * in.ysd[r % in.ny]))]]]]

(***************************************************************************)
(* Specification SpecEff: the unscaling applied to effect functions of     *)
(* every shape within the bounds, with entries generated from seeds.       *)
(***************************************************************************)
\* the effect functions of one component: sa[jj]['mef_m'], ['mef_v'],
\* ['jef_m'], ['jef_v']
ComponentEffects(in, s) ==
    [mef_m |-> [d \in Range(in.npvec) |-> [kk \in Range(in.nv) |-> [g \in Range(in.ngrid) |->
                    GenIn(s, (d * in.nv + kk) * in.ngrid + g, -2, 2)]]],
     mef_v |-> [d \in Range(in.npvec) |-> [kk \in Range(in.nv) |-> [g \in Range(in.ngrid) |->
                    GenIn(s + 1, (d * in.nv + kk) * in.ngrid + g, 0, 2)]]],
     jef_m |-> [d \in Range(in.npvec) |-> [kk \in EffPairs(in) |-> [g1 \in Range(in.ngrid) |-> [g2 \in Range(in.ngrid) |->
                    GenIn(s + 2, ((d * in.nv + kk) * in.ngrid + g1) * in.ngrid + g2, -2, 2)]]]],
     jef_v |-> [d \in Range(in.npvec) |-> [kk \in EffPairs(in) |-> [g1 \in Range(in.ngrid) |-> [g2 \in Range(in.ngrid) |->
                    GenIn(s + 3, ((d * in.nv + kk) * in.ngrid + g1) * in.ngrid + g2, 0, 2)]]]]]

EffShape(pu, nv, ny, ngrid, npvec) == [pu |-> pu, nv |-> nv, ny |-> ny, ngrid |-> ngrid, npvec |-> npvec]

EffInputsOf(sh) ==
    {[fn |-> "unscaling", pu |-> sh.pu, nv |-> sh.nv, ny |-> sh.ny, ngrid |-> sh.ngrid, npvec |-> sh.npvec,
      ksmm |-> [l \in Range(sh.ny) |-> [jj \in Range(sh.pu) |-> GenIn(sd, l * sh.pu + jj, -1, 2)]],
      ymean |-> [l \in Range(sh.ny) |-> GenIn(sd + 1, l, 0, 3)],
      ysd |-> [l \in Range(sh.ny) |-> GenIn(sd + 2, l, 1, 2)],
      sa |-> [jj \in Range(sh.pu) |-> ComponentEffects(sh, sd + 3 + 2 * jj)]] : sd \in Seeds}

EffInputs ==
    UNION {EffInputsOf(EffShape(pu, nv, ny, ngrid, npvec)) :
             pu \in 1 .. MaxPu, nv \in 1 .. MaxDim, ny \in 1 .. MaxNy, ngrid \in 1 .. MaxGrid, npvec \in 1 .. MaxDraws}

InitEff ==
    /\ model = NoModel
    /\ call = NoCall
    /\ result = Idle
    /\ varfIn = NoVarf
    /\ varfOut = NoVarf
    /\ numIn \in EffInputs
    /\ numOut = NoNum
    /\ data = NoData
    /\ heap = NoHeap

ApplyUnscaling ==
    /\ numOut = NoNum
    /\ numOut' = unscaling(numIn)
    /\ UNCHANGED <<model, call, result, varfIn, varfOut, numIn, data, heap>>

NextEff == ApplyUnscaling

SpecEff == InitEff /\ [][NextEff]_vars

\* the sum over the draws of mef_m of component jj at dimension kk, grid point g
SumOfDraws(in, jj, kk, g) == SumTo([d \in Range(in.npvec) |-> in.sa[jj].mef_m[d][kk][g]], in.npvec)

\* C22: at every active dimension, output and grid point, tmef_m is the
\* output mean once plus the sum over the components of loading * mean over
\* the draws of the component's mef_m * output sd, and each component's own
\* mef_m holds the output mean once.  (Both sides are multiplied by the
\* number of draws.)
C22_MeanAddedOnce ==
    (numOut.fn = "unscaling")
      => \A kk \in Range(numIn.nv) : \A l \in Range(numIn.ny) : \A g \in Range(numIn.ngrid) :
            /\ RMul(numOut.tmef_m[kk][l][g], R(numIn.npvec))
                 = R(numIn.npvec * numIn.ymean[l]
                     + SumTo([jj \in Range(numIn.pu) |->
                                 numIn.ksmm[l][jj] * SumOfDraws(numIn, jj, kk, g) * numIn.ysd[l]], numIn.pu))
            /\ \A jj \in Range(numIn.pu) :
                 RMul(numOut.mef_m[jj][kk][l][g], R(numIn.npvec))
                   = R(numIn.npvec * numIn.ymean[l] + numIn.ksmm[l][jj] * SumOfDraws(numIn, jj, kk, g) * numIn.ysd[l])

C22_Witness ==
    /\ numOut.fn = "unscaling"
    /\ numIn.pu >= 2
    /\ numIn.npvec >= 2
    /\ numIn.ymean[0] # 0
    /\ numIn.ksmm[0][0] # 0
    /\ numIn.ksmm[0][1] # 0
    /\ SumOfDraws(numIn, 0, 0, 0) # 0
    /\ SumOfDraws(numIn, 1, 0, 0) # 0
    /\ numOut.tmef_m[0][0][0] # R(numIn.ymean[0])
    /\ numOut.tmef_m[0][0][0] # RAdd(numOut.mef_m[0][0][0][0], numOut.mef_m[1][0][0][0])

\* sum over the components kk of ksmm[ii, kk] * mef_m of kk at draw d
RowCombination(in, ii, jj, g, d) ==
    SumTo([kk \in Range(in.pu) |-> in.ksmm[ii][kk] * in.sa[kk].mef_m[d][jj][g]], in.pu)

\* C24: the draw-variance term added to tmef_sd[jj, ii, :] is the variance
\* over the draws of sum_kk ksmm[ii, kk] * mef_m_kk[:, jj, :], a function of
\* row ii of the basis and of dimension jj alone.
C24_DrawVarianceOfOwnRow ==
    (numOut.fn = "unscaling")
      => \A jj \in Range(numIn.nv) : \A ii \in Range(numIn.ny) : \A g \in Range(numIn.ngrid) :
            numOut.drawVar[jj][ii][g]
              = DrawVar([d \in Range(numIn.npvec) |-> R(RowCombination(numIn, ii, jj, g, d))], numIn.npvec)

\* the part of C24 about one retained draw: the draw-variance term is zero
\* and tmef_sd squared is sum_kk ksmm[ii, kk]^2 * mef_v_kk times ysd squared
C24_SingleDraw ==
    (numOut.fn = "unscaling" /\ numIn.npvec = 1)
      => \A jj \in Range(numIn.nv) : \A ii \in Range(numIn.ny) : \A g \in Range(numIn.ngrid) :
            /\ numOut.drawVar[jj][ii][g] = R(0)
            /\ numOut.tmef_sd_sq[jj][ii][g]
                 = R(SumTo([kk \in Range(numIn.pu) |->
                              numIn.ksmm[ii][kk] * numIn.ksmm[ii][kk] * numIn.sa[kk].mef_v[0][jj][g]], numIn.pu)
                     * numIn.ysd[ii] * numIn.ysd[ii])

C24_SingleDrawReached ==
    /\ numOut.fn = "unscaling"
    /\ numIn.npvec = 1
    /\ numIn.pu >= 2
    /\ numIn.ny >= 2
    /\ numOut.tmef_sd_sq[0][1][0] # R(0)

\* the first output row of C24: nothing was accumulated before it
C24_FirstRow ==
    (numOut.fn = "unscaling")
      => \A jj \in Range(numIn.nv) : \A g \in Range(numIn.ngrid) :
            numOut.drawVar[jj][0][g]
              = DrawVar([d \in Range(numIn.npvec) |-> R(RowCombination(numIn, 0, jj, g, d))], numIn.npvec)

\* a later output row of C24: the term is the variance of the running sum
\* over the output rows 0 .. ii
C24_LaterRowsCarryEarlierRows ==
    (numOut.fn = "unscaling")
      => \A jj \in Range(numIn.nv) : \A ii \in Range(numIn.ny) : \A g \in Range(numIn.ngrid) :
            numOut.drawVar[jj][ii][g]
              = DrawVar([d \in Range(numIn.npvec) |->
                           R(SumTo([r \in Range(ii + 1) |-> RowCombination(numIn, r, jj, g, d)], ii + 1))], numIn.npvec)

\* C23: for every grid row hh and output ii the row index computed for the
\* draw-variance term of tjef_sd is hh * L + ii, L the number of outputs: it
\* is never negative and grid row 0 lands in the first block of L rows.
C23_RowOfGridRow ==
    (numOut.fn = "unscaling" /\ EffPairs(numIn) # {})
      => \A hh \in Range(numIn.ngrid) : \A ii \in Range(numIn.ny) :
            /\ numOut.tjef_rows[hh][ii] >= 0
            /\ numOut.tjef_rows[hh][ii] = hh * numIn.ny + ii
            /\ (hh = 0) => numOut.tjef_rows[hh][ii] \in Range(numIn.ny)

\* what line 215 does: grid row 0 is written through a negative index, into
\* the last block of L rows, and grid row hh > 0 into block hh - 1
C23_RowsShiftedByOneBlock ==
    (numOut.fn = "unscaling" /\ EffPairs(numIn) # {})
      => \A hh \in Range(numIn.ngrid) : \A ii \in Range(numIn.ny) :
            /\ numOut.tjef_rows[hh][ii] = (hh - 1) * numIn.ny + ii
            /\ (hh = 0) => /\ numOut.tjef_rows[hh][ii] < 0
                           /\ PyIndex(numOut.tjef_rows[hh][ii], numIn.ngrid * numIn.ny)
                                = (numIn.ngrid - 1) * numIn.ny + ii

\* a call with a pair of dimensions, two grid rows and draws that differ,
\* where the last block of rows holds a draw-variance term
C23_PairReached ==
    /\ numOut.fn = "unscaling"
    /\ EffPairs(numIn) # {}
    /\ numIn.ngrid >= 2
    /\ numIn.ny >= 2
    /\ numIn.npvec >= 2
    /\ numOut.tjef_rows[0][0] = -numIn.ny
    /\ numOut.tjef_drawVar[0][(numIn.ngrid - 1) * numIn.ny][0] # R(0)

(***************************************************************************)
(* Specification SpecMem: a model, a caller and their arrays; the caller   *)
(* calls sensitivity again and again on the same arrays.  The calls differ *)
(* in what decides which statements run: which arguments are given, the    *)
(* option, the lists, the ranges, and whether the draws of a dict option   *)
(* agree.                                                                  *)
(***************************************************************************)
MemModels == [p : 1 .. MaxP, q : {0}, pu : 1 .. MaxPu, N : {1}]

MemOptions ==
    {[kind |-> "str", name |-> s, rows |-> Rows(0, 0, 0)] : s \in OptionNames}
      \cup {[kind |-> "dict", name |-> "", rows |-> Rows(b, 1, 1)] : b \in 1 .. 2}

MemCallArgs(mdl) ==
    [samples_dict : {[given |-> FALSE, rows |-> Rows(0, 0, 0)], [given |-> TRUE, rows |-> Rows(1, 1, 1)]},
     option : MemOptions, varlist : Varlists(mdl.p + mdl.q), jelist : Jelists(mdl.p + mdl.q),
     rg : Ranges(mdl.p + mdl.q)]

InitMem ==
    /\ model \in MemModels
    /\ call = NoCall
    /\ result = Idle
    /\ varfIn = NoVarf
    /\ varfOut = NoVarf
    /\ numIn = NoNum
    /\ numOut = NoNum
    /\ data = NoData
    /\ heap = Original

CallMem ==
    /\ result.kind = "idle"
    /\ \E a \in MemCallArgs(model) :
          /\ call' = a
          /\ result' = sensitivity(model, a)
          /\ heap' = sensitivity_memory(model, a, heap)
    /\ UNCHANGED <<model, varfIn, varfOut, numIn, numOut, data>>

Returned ==
    /\ result.kind # "idle"
    /\ call' = NoCall
    /\ result' = Idle
    /\ UNCHANGED <<model, varfIn, varfOut, numIn, numOut, data, heap>>

NextMem == CallMem \/ Returned

SpecMem == InitMem /\ [][NextMem]_vars

\* C25: after a call of sensitivity, whether it returned a bundle, returned
\* early or failed, every array of the model (stored samples, zt, w, K, the
\* rescaling values) and of the caller (samples_dict, rg, the arrays of a
\* dict option) holds what it held before the call.
C25_InputsUnchanged == \A b \in InputBuffers : heap[b] = "original"

\* a completed call on the caller's own arrays: samples_dict given, the
\* draws taken as they are
C25_Witness ==
    /\ result.kind = "bundle"
    /\ call.samples_dict.given
    /\ call.option.kind = "str"
    /\ call.option.name = "samples"
    /\ call.varlist.kind = "list"
    /\ Len(call.varlist.pairs) > 0
    /\ heap = Original

\* the other ways a call ends: after a reduction to one draw, with a dict
\* option, with an early return, with an exception
C25_ReducedReached == result.kind = "bundle" /\ call.option.kind = "str" /\ call.option.name = "mean" /\ heap = Original

C25_DictReached == result.kind = "bundle" /\ call.option.kind = "dict" /\ heap = Original

C25_EarlyReturnReached == result.kind = "none" /\ ~call.rg.given /\ call.samples_dict.given /\ heap = Original

C25_FailureReached == result.kind = "raise" /\ call.rg.given /\ heap = Original

(***************************************************************************)
(* Specification SpecBasis: a SepiaData object and the methods called on   *)
(* it after construction: standardize_y, create_K_basis (with              *)
(* compute_sim_PCA_basis) and create_D_basis.  An attribute is None or     *)
(* set; a basis is kept by its shape.  The simulations are at least as     *)
(* many as the outputs.                                                    *)
(***************************************************************************)
NoBasisYet == [kind |-> "None", count |-> 0, rows |-> 0, normed |-> FALSE]

\* one matrix of the given number of rows (an ndarray)
BasisArray(rows) == [kind |-> "array", count |-> 1, rows |-> rows, normed |-> FALSE]

\* a list of matrices, one per observation
BasisList(n, rows) == [kind |-> "list", count |-> n, rows |-> rows, normed |-> FALSE]

NoOutcome == [method |-> "", args |-> <<>>, kind |-> "idle", err |-> "", printed |-> ""]

Done(method, msg) == [method |-> method, args |-> <<>>, kind |-> "ok", err |-> "", printed |-> msg]

Failed(method, e, msg) == [method |-> method, args |-> <<>>, kind |-> "raise", err |-> e, printed |-> msg]

\* SepiaData.__init__, lines 43-64, and DataContainer.__init__, lines 96-100:
\* the object as the constructor leaves it.  ell_sim and ell_obs are the
\* numbers of outputs per simulation and per observation, ragged says that
\* obs y is a list, sim_y_ind and obs_y_ind that y_ind_sim and y_ind_obs were
\* given
Dataset(sim_only, ell_sim, sim_y_ind, ragged, n_obs, ell_obs, obs_y_ind) ==
    [fn |-> "dataset", sim_only |-> sim_only, scalar_out |-> ~(sim_y_ind /\ ell_sim > 1),
     ell_sim |-> ell_sim, sim_y_ind |-> sim_y_ind,
     ragged |-> ragged, n_obs |-> n_obs, ell_obs |-> ell_obs, obs_y_ind |-> obs_y_ind,
     y_std |-> FALSE, obs_y_std |-> FALSE, K |-> NoBasisYet, obs_K |-> NoBasisYet, D |-> NoBasisYet,
     last |-> NoOutcome]

\* DataContainer.__init__, lines 47-63: y_ind is required for more than one
\* column and for a list, whose elements are squeezed and so hold two values
\* or more
SimShapes == {s \in (1 .. MaxNy) \X BOOLEAN : s[1] > 1 => s[2]}

ObsShapes ==
    {o \in BOOLEAN \X (1 .. MaxM) \X (1 .. MaxNy) \X BOOLEAN :
        /\ (o[1] \/ o[3] > 1) => o[4]
        /\ o[1] => o[3] > 1}

\* the objects the constructor accepts
Datasets ==
    {Dataset(TRUE, s[1], s[2], FALSE, 0, 0, FALSE) : s \in SimShapes}
      \cup {Dataset(FALSE, s[1], s[2], o[1], o[2], o[3], o[4]) : s \in SimShapes, o \in ObsShapes}

\* lines 161-177: the simulation mean is interpolated to the observations'
\* indices when the output is not scalar; an index that is None has no
\* squeeze
StandardizeRaises(d) == ~d.sim_only /\ ~d.scalar_out /\ (~d.sim_y_ind \/ ~d.obs_y_ind)

\* standardize_y, lines 141-190, with its default arguments: the attributes
\* it leaves, whether it returns or raises
standardize_y(d) ==
    IF d.sim_only \/ StandardizeRaises(d) THEN [d EXCEPT !.y_std = TRUE]
    ELSE [d EXCEPT !.y_std = TRUE, !.obs_y_std = TRUE]

WarnNotStandardized == "WARNING: y not standardized, doing default standardization before PCA..."

\* the rows of the basis: n_pc below 1 is a proportion of variance and any
\* number of components can meet it; otherwise int(n_pc), as far as there
\* are singular values
BasisRows(d, n_pc) == IF n_pc = 0 THEN 1 .. d.ell_sim ELSE {IF n_pc < d.ell_sim THEN n_pc ELSE d.ell_sim}

\* line 234: y_std is read into a local name before the test of line 235;
\* the name keeps what it read
StandardizedAtEntry(d) == d.y_std

\* compute_sim_PCA_basis, lines 228-245, giving K pu rows
compute_sim_PCA_basis(d, pu) ==
    LET y_std == StandardizedAtEntry(d)
        d1 == IF ~d.y_std THEN standardize_y(d) ELSE d
        msg == IF ~d.y_std THEN WarnNotStandardized ELSE ""
    IN  IF ~y_std THEN [d1 EXCEPT !.last = Failed("create_K_basis", "AttributeError", msg)]
        ELSE [d1 EXCEPT !.K = BasisArray(pu), !.last = Done("create_K_basis", msg)]

\* what np.interp raises for an xp that is None
InterpErrors == {"TypeError", "ValueError"}

\* create_K_basis, lines 192-226, with K=None; n_pc = 0 stands for a
\* proportion below 1
create_K_basis(d, n_pc, pu, e) ==
    IF d.scalar_out
    THEN IF n_pc = 1
         THEN [d EXCEPT !.K = BasisArray(1), !.scalar_out = FALSE,
                        !.last = Done("create_K_basis", "Scalar output, using pu = 1 basis.")]
         ELSE [d EXCEPT !.last = Done("create_K_basis", "Scalar output, no basis used.")]
    ELSE LET d1 == compute_sim_PCA_basis(d, pu)
         IN  IF d1.last.kind = "raise" \/ d1.sim_only THEN d1
             ELSE IF ~d1.obs_y_ind THEN [d1 EXCEPT !.last = Failed("create_K_basis", "AttributeError", d1.last.printed)]
             ELSE IF ~d1.sim_y_ind THEN [d1 EXCEPT !.last = Failed("create_K_basis", e, d1.last.printed)]
             ELSE IF d1.ragged THEN [d1 EXCEPT !.obs_K = BasisList(d1.n_obs, d1.K.rows)]
             ELSE [d1 EXCEPT !.obs_K = BasisArray(d1.K.rows)]

\* create_D_basis, lines 270-280: the basis built for D=None
BuildD(d, type) ==
    IF type = "constant"
    THEN [ok |-> TRUE, err |-> "", D |-> IF d.ragged THEN BasisList(d.n_obs, 1) ELSE BasisArray(1)]
    ELSE IF type = "linear" /\ ~d.scalar_out
    THEN IF d.ragged THEN [ok |-> FALSE, err |-> "AttributeError", D |-> d.D]
         ELSE [ok |-> TRUE, err |-> "", D |-> BasisArray(2)]
    ELSE [ok |-> TRUE, err |-> "", D |-> d.D]

\* create_D_basis, lines 282-287: D divided in place
NormalizeD(d, D) ==
    IF D.kind = "list" THEN [ok |-> TRUE, err |-> "", D |-> [D EXCEPT !.normed = TRUE]]
    ELSE IF D.kind = "None" THEN [ok |-> FALSE, err |-> "AttributeError", D |-> D]
    ELSE IF D.rows = 2 /\ ~d.obs_y_ind THEN [ok |-> FALSE, err |-> "TypeError", D |-> D]
    ELSE [ok |-> TRUE, err |-> "", D |-> [D EXCEPT !.normed = TRUE]]

\* create_D_basis, lines 248-287, with D=None
create_D_basis(d, type, norm) ==
    IF d.sim_only THEN [d EXCEPT !.last = Done("create_D_basis", "Sim only, skipping discrepancy...")]
    ELSE LET b == BuildD(d, type)
         IN  IF ~b.ok THEN [d EXCEPT !.last = Failed("create_D_basis", b.err, "")]
             ELSE IF ~norm THEN [d EXCEPT !.D = b.D, !.last = Done("create_D_basis", "")]
             ELSE LET n == NormalizeD(d, b.D)
                  IN  IF ~n.ok THEN [d EXCEPT !.D = b.D, !.last = Failed("create_D_basis", n.err, "")]
                      ELSE [d EXCEPT !.D = n.D, !.last = Done("create_D_basis", "")]

\* the values of n_pc: a proportion (0) or a number of components
ComponentCounts == 0 .. MaxPu

InitBasis ==
    /\ model = NoModel
    /\ call = NoCall
    /\ result = Idle
    /\ varfIn = NoVarf
    /\ varfOut = NoVarf
    /\ numIn = NoNum
    /\ numOut = NoNum
    /\ data \in Datasets
    /\ heap = NoHeap

StandardizeY ==
    /\ data.fn = "dataset"
    /\ data.last.kind = "idle"
    /\ data' = [standardize_y(data) EXCEPT
                   !.last = IF StandardizeRaises(data) THEN Failed("standardize_y", "AttributeError", "")
                            ELSE Done("standardize_y", "")]
    /\ UNCHANGED <<model, call, result, varfIn, varfOut, numIn, numOut, heap>>

CreateKBasis ==
    /\ data.fn = "dataset"
    /\ data.last.kind = "idle"
    /\ \E n_pc \in ComponentCounts : \E pu \in BasisRows(data, n_pc) : \E e \in InterpErrors :
          data' = [create_K_basis(data, n_pc, pu, e) EXCEPT !.last.args = <<n_pc>>]
    /\ UNCHANGED <<model, call, result, varfIn, varfOut, numIn, numOut, heap>>

CreateDBasis ==
    /\ data.fn = "dataset"
    /\ data.last.kind = "idle"
    /\ \E type \in {"constant", "linear"} : \E norm \in BOOLEAN :
          data' = [create_D_basis(data, type, norm) EXCEPT !.last.args = <<type, norm>>]
    /\ UNCHANGED <<model, call, result, varfIn, varfOut, numIn, numOut, heap>>

\* the caller goes on after a method has returned or raised
Continue ==
    /\ data.fn = "dataset"
    /\ data.last.kind # "idle"
    /\ data' = [data EXCEPT !.last = NoOutcome]
    /\ UNCHANGED <<model, call, result, varfIn, varfOut, numIn, numOut, heap>>

NextBasis == StandardizeY \/ CreateKBasis \/ CreateDBasis \/ Continue

SpecBasis == InitBasis /\ [][NextBasis]_vars

\* C26: create_K_basis with K=None on multivariate data whose y_std is still
\* None standardizes first and then computes the basis: it returns, with
\* sim_data.y_std and sim_data.K both set.  (The warning is printed only on
\* this path.)
C26_StandardizesThenComputes ==
    (data.fn = "dataset" /\ data.last.method = "create_K_basis" /\ data.last.printed = WarnNotStandardized)
      => /\ data.last.kind = "ok"
         /\ data.y_std
         /\ data.K.kind # "None"

\* what the call leaves: y_std set by the default standardization, an
\* AttributeError raised, K as it was
C26_FailsAfterStandardizing ==
    (data.fn = "dataset" /\ data.last.method = "create_K_basis" /\ data.last.printed = WarnNotStandardized)
      => /\ data.last.kind = "raise"
         /\ data.last.err = "AttributeError"
         /\ data.y_std

C26_UnstandardizedReached ==
    /\ data.fn = "dataset"
    /\ data.last.method = "create_K_basis"
    /\ data.last.printed = WarnNotStandardized
    /\ ~data.scalar_out
    /\ data.K.kind = "None"

\* the call made after standardize_y computes the basis
C26_StandardizedReached ==
    /\ data.fn = "dataset"
    /\ data.last.method = "create_K_basis"
    /\ data.last.kind = "ok"
    /\ data.last.printed = ""
    /\ data.K.kind = "array"
    /\ data.obs_K.kind = "list"

\* the state right after a call of create_D_basis on a dataset with
\* observations
AfterDBasis == data.fn = "dataset" /\ data.last.method = "create_D_basis" /\ ~data.sim_only

\* obs_data.D is a basis of the kind of obs y: one matrix for an array, one
\* matrix per observation for a list
BasisOfObs ==
    IF data.ragged THEN data.D.kind = "list" /\ data.D.count = data.n_obs
    ELSE data.D.kind = "array" /\ data.D.count = 1

\* C27: create_D_basis with D=None and type 'constant' or 'linear' on a
\* dataset with observations returns with obs_data.D set to a basis, never
\* None: one matrix for array-valued obs y, a list with one matrix per
\* observation for ragged obs y, for both values of norm and for scalar as
\* well as multivariate output.
C27_BasisSet == AfterDBasis => (data.last.kind = "ok" /\ BasisOfObs)

\* the part that holds: type 'constant'
C27_ConstantBasisSet ==
    (AfterDBasis /\ data.last.args[1] = "constant") => (data.last.kind = "ok" /\ BasisOfObs /\ data.D.rows = 1)

\* the part that holds: type 'linear' on multivariate output, array-valued
\* obs y and y_ind_obs given
C27_LinearArrayBasisSet ==
    (AfterDBasis /\ data.last.args[1] = "linear" /\ ~data.scalar_out /\ ~data.ragged /\ data.obs_y_ind)
      => (data.last.kind = "ok" /\ BasisOfObs /\ data.D.rows = 2)

\* type 'linear' on multivariate output and ragged obs y raises
\* AttributeError: line 276 asks the list for its shape
C27_LinearRaggedRaises ==
    (AfterDBasis /\ data.last.args[1] = "linear" /\ ~data.scalar_out /\ data.ragged)
      => (data.last.kind = "raise" /\ data.last.err = "AttributeError")

\* type 'linear' on scalar output builds nothing: with obs_data.D still None
\* the call raises AttributeError for norm=True and returns for norm=False
C27_LinearScalarBuildsNothing ==
    (AfterDBasis /\ data.last.args[1] = "linear" /\ data.scalar_out /\ data.D.kind = "None")
      => IF data.last.args[2] THEN data.last.kind = "raise" /\ data.last.err = "AttributeError"
         ELSE data.last.kind = "ok"

\* the part that holds: on a sim-only dataset the call changes no attribute
C27_SimOnlyUnchanged ==
    [][(data.fn = "dataset" /\ data.sim_only /\ data'.last.method = "create_D_basis" /\ data.last.kind = "idle")
         => [data' EXCEPT !.last = NoOutcome] = data]_vars

C27_LinearRaggedReached ==
    /\ AfterDBasis
    /\ data.last.args[1] = "linear"
    /\ ~data.scalar_out
    /\ data.ragged
    /\ data.last.kind = "raise"
    /\ data.D.kind = "None"

C27_LinearScalarReached ==
    /\ AfterDBasis
    /\ data.last.args = <<"linear", FALSE>>
    /\ data.scalar_out
    /\ data.last.kind = "ok"
    /\ data.D.kind = "None"

C27_ConstantRaggedReached ==
    /\ AfterDBasis
    /\ data.last.args = <<"constant", TRUE>>
    /\ data.ragged
    /\ data.D.kind = "list"
    /\ data.D.normed

C27_SimOnlyReached ==
    /\ data.fn = "dataset"
    /\ data.sim_only
    /\ data.last.method = "create_D_basis"
    /\ data.last.kind = "ok"

====
